---- MODULE Spec2Model ----
(***************************************************************************)
(* Annotation version store of the SVS annotation tool                     *)
(* (magic_annotation_tool/app/annotation.py, utility.py) together with the *)
(* browser side of the viewer (leaflet_viewer.py) it talks to.             *)
(*                                                                         *)
(* Numbers are scaled integers: zoom, center and coordinates are stored    *)
(* multiplied by 1000, so that the tolerances 0.01, 0.1 and 0.001 of       *)
(* _compare_states are 10, 100 and 1.  Time is counted in whole seconds.   *)
(*                                                                         *)
(* A snapshot is a record; keys a payload does not have are absent from    *)
(* the record and read through Get with the default the code gives.  The   *)
(* "timestamp" of a payload is kept as the clock that produced it ("js"    *)
(* for new Date() in the browser, "py" for datetime.now() in the store):   *)
(* two payloads stamped at different moments are different strings, which  *)
(* is what annotation_data (the identity of the param string) records.     *)
(***************************************************************************)
EXTENDS FiniteSets, Integers, Sequences, TLC

\* ------------------------------------------------------------------ bounds
\* cap handed to cleanup_old_live_tracking (1000 in the source, scaled down)
max_files == 3
\* snapshots on their way from the browser to the store
MaxInFlight == 2
\* live-tracking files a session adds to the ones it found
MaxAppends == 2
\* saved views a session adds to the ones it found
MaxSaved == 1
\* buttons the user presses in a session
MaxClicks == 2
\* times the user pans, zooms or draws in a session
MaxEdits == 1

\* ------------------------------------------------------- program constants
GracePeriod == 2
ZoomTol == 10
CenterTol == 100
CoordTol == 1

\* ------------------------------------------------------------- snapshots
None == [none |-> TRUE]

Get(d, k, default) == IF k \in DOMAIN d THEN d[k] ELSE default

Abs(x) == IF x < 0 THEN -x ELSE x

\* what the browser can be showing: the map's zoom and center and the
\* polylines of the drawn-items layer (as [lat, lng] points).  UiA and UiA2
\* are within the zoom tolerance of each other, UiB carries a polyline
Layer1 == [latlngs |-> << <<20, 10>>, <<40, 30>> >>, color |-> "red", weight |-> 3]

UiA == [zoom |-> 8000, center |-> <<500, 500>>, layers |-> <<>>]
UiA2 == [zoom |-> 8005, center |-> <<500, 500>>, layers |-> <<>>]
UiB == [zoom |-> 8000, center |-> <<500, 500>>, layers |-> <<Layer1>>]

Views == {UiA, UiA2, UiB}

Dimensions == [width |-> 100000, height |-> 100000]

\* dict with key k set to v (d[k] = v in Python)
SetKey(d, k, v) == (k :> v) @@ d

Min(S) == CHOOSE x \in S : \A y \in S : x <= y
Max(S) == CHOOSE x \in S : \A y \in S : y <= x

\* the elements of a finite set of integers in increasing order
RECURSIVE SortedSeq(_)
SortedSeq(S) == IF S = {} THEN <<>> ELSE <<Min(S)>> \o SortedSeq(S \ {Min(S)})

\* list.index(x) as a 1-based position, 0 when x is not in the list
IndexOf(seq, x) == IF \E i \in 1..Len(seq) : seq[i] = x
                   THEN CHOOSE i \in 1..Len(seq) : seq[i] = x
                   ELSE 0

\* ------------------------------------------------------ _compare_states
coords_differ(c1, c2) ==
    \/ Abs(c1[1] - c2[1]) > CoordTol
    \/ Abs(c1[2] - c2[2]) > CoordTol

\* a1.get(k) != a2.get(k): a missing key reads as None on either side
field_differs(a1, a2, k) ==
    IF k \in DOMAIN a1 /\ k \in DOMAIN a2 THEN a1[k] # a2[k]
    ELSE (k \in DOMAIN a1) # (k \in DOMAIN a2)

annotation_differs(a1, a2) ==
    \/ field_differs(a1, a2, "type")
    \/ field_differs(a1, a2, "color")
    \/ field_differs(a1, a2, "weight")
    \/ Len(Get(a1, "coordinates", <<>>)) # Len(Get(a2, "coordinates", <<>>))
    \/ \E i \in 1..Len(Get(a1, "coordinates", <<>>)) :
          coords_differ(a1.coordinates[i], a2.coordinates[i])

\* the comparison with a zoom that counts as changed once the difference
\* reaches the tolerance
compare_states_at_tolerance(state1, state2) ==
    IF state1 = None \/ state2 = None THEN TRUE
    ELSE
      \/ Abs(Get(state1, "zoom", 0) - Get(state2, "zoom", 0)) >= ZoomTol
      \/ Abs(Get(state1, "center", <<0, 0>>)[1] - Get(state2, "center", <<0, 0>>)[1]) > CenterTol
      \/ Abs(Get(state1, "center", <<0, 0>>)[2] - Get(state2, "center", <<0, 0>>)[2]) > CenterTol
      \/ Len(Get(state1, "annotations", <<>>)) # Len(Get(state2, "annotations", <<>>))
      \/ \E i \in 1..Len(Get(state1, "annotations", <<>>)) :
            annotation_differs(state1.annotations[i], state2.annotations[i])

\* the comparison as plain inequality of the two dicts
compare_states_exact(state1, state2) == state1 # state2

compare_states(state1, state2) ==
    IF state1 = None \/ state2 = None THEN TRUE
    ELSE
      \/ Abs(Get(state1, "zoom", 0) - Get(state2, "zoom", 0)) > ZoomTol
      \/ Abs(Get(state1, "center", <<0, 0>>)[1] - Get(state2, "center", <<0, 0>>)[1]) > CenterTol
      \/ Abs(Get(state1, "center", <<0, 0>>)[2] - Get(state2, "center", <<0, 0>>)[2]) > CenterTol
      \/ Len(Get(state1, "annotations", <<>>)) # Len(Get(state2, "annotations", <<>>))
      \/ \E i \in 1..Len(Get(state1, "annotations", <<>>)) :
            annotation_differs(state1.annotations[i], state2.annotations[i])

\* ------------------------------------------------------------ utility.py
\* the file numbers in decreasing order: sort(reverse=True)
file_numbers_descending(dir) ==
    [i \in 1..Cardinality(DOMAIN dir) |->
        SortedSeq(DOMAIN dir)[Cardinality(DOMAIN dir) + 1 - i]]

\* a directory is a function from the file numbers present to file contents
file_numbers(dir) == SortedSeq(DOMAIN dir)

get_next_live_tracking_number(live) ==
    IF DOMAIN live = {} THEN 0 ELSE Max(DOMAIN live) + 1

\* the directory with the files numbered in S removed
Without(dir, S) == [n \in (DOMAIN dir) \ S |-> dir[n]]

\* the cleanup with len(existing_files) < max_files as its early return and
\* one file less removed
cleanup_keeps_one_more(live, cap) ==
    IF Cardinality(DOMAIN live) <= cap + 1 THEN live
    ELSE Without(live, {file_numbers(live)[i] :
                           i \in 1..(Cardinality(DOMAIN live) - cap - 1)})

\* the cleanup with the sort reversed: the newest files are removed
cleanup_removes_newest(live, cap) ==
    IF Cardinality(DOMAIN live) <= cap THEN live
    ELSE LET nums == file_numbers_descending(live)
             num_to_remove == Len(nums) - cap
         IN Without(live, {nums[i] : i \in 1..num_to_remove})

cleanup_old_live_tracking(live, cap) ==
    IF Cardinality(DOMAIN live) <= cap THEN live
    ELSE LET nums == file_numbers(live)
             num_to_remove == Len(nums) - cap
         IN Without(live, {nums[i] : i \in 1..num_to_remove})

get_saved_views_list(saved) == file_numbers(saved)

\* open(filepath, 'w'); json.dump: the file numbered n now holds data
save_annotation_json(dir, n, data) ==
    [m \in (DOMAIN dir) \cup {n} |-> IF m = n THEN data ELSE dir[m]]

\* json.load of the file numbered n, as load_annotation_json sees it
load_annotation_json(dir, n) == IF n \in DOMAIN dir THEN dir[n] ELSE None

\* -------------------------------------------------------------- the state
VARIABLES
    live_dir,              \* /data/anno/<image>/live_tracking: number -> content
    saved_dir,             \* /data/anno/<image>/saved_views: number -> content
    live_tracking_index,   \* number of the next live-tracking file
    current_live_index,    \* current position in the live-tracking sequence
    last_saved_state,      \* reference snapshot, None before the first one
    initial_state_saved,
    current_saved_index,   \* saved-views cursor, -1: no saved view loaded
    manual_save_pending,
    is_loading_state,      \* the LOADING_STATE flag
    time_since_navigation, \* time.time() - _navigation_timestamp, in seconds,
                           \* counted up to GracePeriod
    annotation_data,       \* identity of the viewer's annotation_data string
    ui,                    \* what the browser shows: zoom, center, annotations
    toPy,                  \* annotation_data values on their way to the store
    disk_faults,           \* the file operations that may fail in this run
    index_cap,             \* no snapshot is asked for once live_tracking_index
                           \* has reached it
    saved_cap,             \* no save is asked for once that many views exist
    clicks_left,           \* buttons the user will still press
    edits_left,            \* edits of the view the user will still make
    time_since_undo,       \* seconds since the last undo that had a file to step back to,
                           \* counted up to GracePeriod
    received,              \* the browser has sent a snapshot in this session
    ev,                    \* the handler that ran last and what it observed
    done_status,           \* the store's done flag of the image
    ink_found_status,      \* the store's ink-found flag of the image
    status_file,           \* ink_status.json: image name -> status record
    views_expected,        \* saved views found at the start plus Save View clicks
    last_read,             \* what the read of the last navigation's target file
                           \* gave, "-" if the navigation read no file
    other,                 \* the fields of a second session open on the same image
    stale,                 \* answers in flight that were asked for before the last
                           \* undo or redo that loaded a file
    peer,                  \* a session open on another image: where it is in its
                           \* status save and what it has read
    dzi_disk,              \* the tile server's DZI_BASE_DIR: its files and directories
    response,              \* the tile server's last answer
    DEFAULT_SHORTCUTS,     \* what the module's default table holds now: action -> keys
    shortcuts,             \* the manager's table: action -> the default table's entry
                           \* or an entry of its own
    config_file,           \* keyboard_shortcuts.json
    last_save,             \* the table the last save_shortcuts call was given, as it
                           \* read then, and what the call returned
    key_op,                \* the shortcut operation that ran last
    key_ops_left,          \* shortcut operations still to come
    slide,                 \* the image convert_svs_to_dzi is given, with tile_size and
                           \* num_workers
    pc_build,              \* where convert_svs_to_dzi is
    tile_coords,           \* the tile tasks, in the order they are handed to the pool
    total_tiles,
    next_task,             \* the next task of tile_coords a worker will take
    running,               \* the tasks the workers are at
    results,               \* what the tasks returned, in the order they finished
    success_count,
    metadata,              \* what calculate_viewer_metadata returned
    out_dir,               \* the paths of the files written to output_dir
    failures_left,         \* tile tasks that will still fail
    viewer_level_dimensions, \* the level_dimensions of a session opened on the
                           \* converted slide, <<>> before it is opened
    failed_tasks           \* the tasks of tile_coords that returned False

vars == <<live_dir, saved_dir, live_tracking_index, current_live_index,
          last_saved_state, initial_state_saved, current_saved_index,
          manual_save_pending, is_loading_state, time_since_navigation,
          annotation_data, ui, toPy, disk_faults, index_cap, saved_cap,
          clicks_left, edits_left, time_since_undo, received, ev,
          done_status, ink_found_status, status_file, views_expected,
          last_read, other, stale, peer, dzi_disk, response,
          DEFAULT_SHORTCUTS, shortcuts, config_file, last_save, key_op,
          key_ops_left, slide, pc_build, tile_coords, total_tiles, next_task,
          running, results, success_count, metadata, out_dir, failures_left,
          viewer_level_dimensions, failed_tasks>>

\* the store's fields and the two directories as one record, so that a
\* handler called from inside another handler is a function on it
Self ==
    [live_dir |-> live_dir, saved_dir |-> saved_dir,
     live_tracking_index |-> live_tracking_index,
     current_live_index |-> current_live_index,
     last_saved_state |-> last_saved_state,
     initial_state_saved |-> initial_state_saved,
     current_saved_index |-> current_saved_index,
     manual_save_pending |-> manual_save_pending,
     is_loading_state |-> is_loading_state,
     time_since_navigation |-> time_since_navigation,
     annotation_data |-> annotation_data]

Commit(st) ==
    /\ live_dir' = st.live_dir
    /\ saved_dir' = st.saved_dir
    /\ live_tracking_index' = st.live_tracking_index
    /\ current_live_index' = st.current_live_index
    /\ last_saved_state' = st.last_saved_state
    /\ initial_state_saved' = st.initial_state_saved
    /\ current_saved_index' = st.current_saved_index
    /\ manual_save_pending' = st.manual_save_pending
    /\ is_loading_state' = st.is_loading_state
    /\ time_since_navigation' = st.time_since_navigation
    /\ annotation_data' = st.annotation_data

\* outcomes of the file system calls of one handler run: what the read of
\* the target file gives ("ok", "none": load_annotation_json returns nothing,
\* "raise": open or json.load raises) and whether a write goes through
IoOutcomes ==
    [read : IF "read" \in disk_faults THEN {"ok", "none", "raise"} ELSE {"ok"},
     write : IF "write" \in disk_faults THEN BOOLEAN ELSE {TRUE},
     status_read : IF "status_read" \in disk_faults THEN {"ok", "raise"} ELSE {"ok"},
     status_write : IF "status_write" \in disk_faults THEN BOOLEAN ELSE {TRUE}]

\* identities of annotation_data strings
InitData == [origin |-> "init", n |-> 0]
JsData == [origin |-> "js", n |-> 0]
PyData == [origin |-> "py", n |-> 0]
LiveData(n) == [origin |-> "live", n |-> n]
SavedData(n) == [origin |-> "saved", n |-> n]

\* -------------------------------------------------------- annotation.py
\* annotation_json['image_dimensions'] = {...}
with_dimensions(annotation_json) ==
    SetKey(annotation_json, "image_dimensions", Dimensions)

\* _save_live_tracking_state; a failed write raises inside its try block,
\* after which nothing of the rest of the block runs
save_live_tracking_state(st, annotation_json, io) ==
    IF ~io.write THEN st
    ELSE [st EXCEPT
            !.live_dir = cleanup_old_live_tracking(
                 save_annotation_json(st.live_dir, st.live_tracking_index,
                                      with_dimensions(annotation_json)),
                 max_files),
            !.current_live_index = st.live_tracking_index,
            !.live_tracking_index = st.live_tracking_index + 1]

\* what _complete_manual_save writes
saved_view_json(annotation_json) ==
    SetKey(SetKey(SetKey(annotation_json, "image_name", "slide"),
                  "image_dimensions", Dimensions), "saved_at", "py")

next_saved_number(saved) ==
    IF get_saved_views_list(saved) = <<>> THEN 0
    ELSE get_saved_views_list(saved)[Len(get_saved_views_list(saved))] + 1

\* a manual save numbered by the live-tracking counter
complete_manual_save_live_numbered(st, annotation_json, io) ==
    IF ~io.write THEN [st EXCEPT !.manual_save_pending = FALSE]
    ELSE [st EXCEPT
            !.saved_dir = save_annotation_json(st.saved_dir, st.live_tracking_index,
                              saved_view_json(annotation_json)),
            !.manual_save_pending = FALSE]

complete_manual_save(st, annotation_json, io) ==
    IF ~io.write THEN [st EXCEPT !.manual_save_pending = FALSE]
    ELSE [st EXCEPT
            !.saved_dir = save_annotation_json(st.saved_dir,
                              next_saved_number(st.saved_dir),
                              saved_view_json(annotation_json)),
            !.manual_save_pending = FALSE]

\* the handler without the comparison: every snapshot that reaches the
\* live-tracking logic is saved
on_annotation_data_change_saves_all(st, annotation_json, io) ==
    IF st.manual_save_pending THEN complete_manual_save(st, annotation_json, io)
    ELSE IF st.is_loading_state
    THEN [st EXCEPT !.last_saved_state = annotation_json,
                    !.is_loading_state = FALSE]
    ELSE [save_live_tracking_state(st, annotation_json, io) EXCEPT
            !.last_saved_state = with_dimensions(annotation_json),
            !.initial_state_saved = TRUE]

\* _on_annotation_data_change, once event.new is non-empty and differs from
\* event.old
on_annotation_data_change(st, annotation_json, io) ==
    IF st.manual_save_pending THEN complete_manual_save(st, annotation_json, io)
    ELSE IF st.is_loading_state
    THEN [st EXCEPT !.last_saved_state = annotation_json,
                    !.is_loading_state = FALSE]
    ELSE IF ~st.initial_state_saved
    THEN [save_live_tracking_state(st, annotation_json, io) EXCEPT
            !.last_saved_state = with_dimensions(annotation_json),
            !.initial_state_saved = TRUE]
    ELSE IF compare_states(annotation_json, st.last_saved_state)
    THEN [save_live_tracking_state(st, annotation_json, io) EXCEPT
            !.last_saved_state = with_dimensions(annotation_json)]
    ELSE st

\* two annotation_data strings are the same string: payloads stamped by a
\* clock are never the string that was there before, a file dumped twice is
same_string(new, old) == new.origin \in {"live", "saved"} /\ new = old

\* viewer.annotation_data = <string>: the watcher registered in __init__
\* runs before the assignment returns, unless the value did not change
set_annotation_data(st, data, annotation_json, io) ==
    IF same_string(data, st.annotation_data) THEN st
    ELSE on_annotation_data_change([st EXCEPT !.annotation_data = data],
                                   annotation_json, io)

\* the "CRITICAL: Set navigation flags BEFORE loading" lines
\* (_navigation_timestamp = time.time(): no time has passed since)
set_navigation_flags(st) ==
    [st EXCEPT !.is_loading_state = TRUE, !.time_since_navigation = 0]

\* messages to the browser
SaveTrigger == [kind |-> "save", data |-> None]
LoadTrigger(annotation_json) == [kind |-> "load", data |-> annotation_json]

HasRoom == Len(toPy) < MaxInFlight

\* what a handler observed: whether it pushed a state to the browser and,
\* when it did, the flag and the timestamp at the moment of the push
\* (again: the snapshot that arrived was not the session's first)
Quiet(op) == [op |-> op, pushed |-> FALSE, flag_at_push |-> FALSE,
              stamped_at_push |-> FALSE, again |-> FALSE]
Pushed(op, st) == [op |-> op, pushed |-> TRUE,
                   flag_at_push |-> st.is_loading_state,
                   stamped_at_push |-> (st.time_since_navigation = 0),
                   again |-> FALSE]

\* lines 474-476 of _undo_annotation
undo_start_index(st) ==
    IF st.current_live_index = -1
       \/ IndexOf(file_numbers(st.live_dir), st.current_live_index) = 0
    THEN file_numbers(st.live_dir)[Len(file_numbers(st.live_dir))]
    ELSE st.current_live_index

\* the branch of _undo_annotation / _redo_annotation that loads the file
\* numbered n, from the state st in which the navigation flags are set
load_live(st, n, io) ==
    IF io.read = "raise" THEN [st EXCEPT !.is_loading_state = FALSE]
    ELSE IF io.read = "none" \/ load_annotation_json(st.live_dir, n) = None THEN st
    ELSE [set_annotation_data(st, LiveData(n), load_annotation_json(st.live_dir, n), io)
            EXCEPT !.current_live_index = n,
                   !.last_saved_state = load_annotation_json(st.live_dir, n),
                   !.current_saved_index = -1]

live_loaded(st, n, io) ==
    io.read = "ok" /\ load_annotation_json(st.live_dir, n) # None

\* ------------------------------------------------------ leaflet_viewer.py
\* GeoJSON is [lng, lat], Leaflet is [lat, lng]
swap(point) == <<point[2], point[1]>>

\* window.getAnnotationsData
get_annotations_data(view) ==
    [image_name |-> "slide",
     zoom |-> view.zoom,
     center |-> view.center,
     annotations |-> [i \in 1..Len(view.layers) |->
        [type |-> "polyline",
         coordinates |-> [j \in 1..Len(view.layers[i].latlngs) |->
                            swap(view.layers[i].latlngs[j])],
         color |-> view.layers[i].color,
         weight |-> view.layers[i].weight]],
     timestamp |-> "js"]

\* the polylines among the annotations of a payload, as layers
RECURSIVE polylines(_)
polylines(annos) ==
    IF annos = <<>> THEN <<>>
    ELSE (IF Get(Head(annos), "type", "") = "polyline"
          THEN << [latlngs |-> [j \in 1..Len(Head(annos).coordinates) |->
                                  swap(Head(annos).coordinates[j])],
                   color |-> Head(annos).color,
                   weight |-> Head(annos).weight] >>
          ELSE <<>>) \o polylines(Tail(annos))

\* window.loadAnnotationsData: the layers are cleared and rebuilt from the
\* payload, the view is restored when the payload has zoom and center
load_annotations_data(view, data) ==
    [zoom |-> IF "zoom" \in DOMAIN data /\ "center" \in DOMAIN data
              THEN data.zoom ELSE view.zoom,
     center |-> IF "zoom" \in DOMAIN data /\ "center" \in DOMAIN data
                THEN data.center ELSE view.center,
     layers |-> polylines(Get(data, "annotations", <<>>))]

\* the load_annotation_trigger script
on_load_trigger(view, data) ==
    IF Get(data, "action", "") = "toggle_minimap" THEN view
    ELSE load_annotations_data(view, data)

\* ------------------------------------------- annotation.py, the handlers
\* a handler's result: the store afterwards, the triggers it sent to the
\* browser and what it observed
Result(st, out, observed) == [st |-> st, out |-> out, ev |-> observed]

\* the guard without the grace period
check_skips_on_flag_only(st) == st.is_loading_state

\* the guard of _check_and_save_if_changed: TRUE when the check returns
\* without asking the browser for its state
check_skips(st) ==
    \/ st.is_loading_state
    \/ st.time_since_navigation < GracePeriod

check_and_save_if_changed(st) ==
    IF check_skips(st) THEN Result(st, <<>>, Quiet("check"))
    ELSE Result(st, <<SaveTrigger>>, Quiet("check"))

undo_annotation(st, io) ==
    IF file_numbers(st.live_dir) = <<>> THEN Result(st, <<>>, Quiet("undo"))
    ELSE
      LET nums == file_numbers(st.live_dir)
          st1 == [st EXCEPT !.current_live_index = undo_start_index(st)]
          current_pos == IndexOf(nums, st1.current_live_index)
      IN IF current_pos > 1
         THEN LET st2 == set_navigation_flags(st1)
                  prev_index == nums[current_pos - 1]
              IN IF live_loaded(st2, prev_index, io)
                 THEN Result(load_live(st2, prev_index, io),
                             <<LoadTrigger(load_annotation_json(st.live_dir, prev_index))>>,
                             Pushed("undo", st2))
                 ELSE Result(load_live(st2, prev_index, io), <<>>, Quiet("undo"))
         ELSE Result(st1, <<>>, Quiet("undo"))

\* the undo finds an earlier file to step back to (current_pos > 0)
undo_steps_back(st) ==
    /\ file_numbers(st.live_dir) # <<>>
    /\ IndexOf(file_numbers(st.live_dir), undo_start_index(st)) > 1

redo_annotation(st, io) ==
    LET nums == file_numbers(st.live_dir)
        current_pos == IndexOf(nums, st.current_live_index)
    IN IF current_pos > 0 /\ current_pos < Len(nums)
       THEN LET st2 == set_navigation_flags(st)
                next_index == nums[current_pos + 1]
            IN IF live_loaded(st2, next_index, io)
               THEN Result(load_live(st2, next_index, io),
                           <<LoadTrigger(load_annotation_json(st.live_dir, next_index))>>,
                           Pushed("redo", st2))
               ELSE Result(load_live(st2, next_index, io), <<>>, Quiet("redo"))
       ELSE Result(st, <<>>, Quiet("redo"))

\* the part of _load_prev_saved / _load_next_saved after the cursor moved:
\* st.current_saved_index is the 0-based position of the view to load
load_saved(st, op, io) ==
    LET st2 == set_navigation_flags(st)
        n == get_saved_views_list(st.saved_dir)[st.current_saved_index + 1]
        annotation_json == load_annotation_json(st.saved_dir, n)
    IN IF io.read = "raise"
       THEN Result([st2 EXCEPT !.is_loading_state = FALSE], <<>>, Quiet(op))
       ELSE IF io.read = "none" \/ annotation_json = None
       THEN Result(st2, <<>>, Quiet(op))
       ELSE Result([set_annotation_data(st2, SavedData(n), annotation_json, io)
                      EXCEPT !.last_saved_state = annotation_json],
                   <<LoadTrigger(annotation_json)>>, Pushed(op, st2))

load_prev_saved(st, io) ==
    IF get_saved_views_list(st.saved_dir) = <<>> THEN Result(st, <<>>, Quiet("prev"))
    ELSE IF st.current_saved_index > 0
    THEN load_saved([st EXCEPT !.current_saved_index = st.current_saved_index - 1],
                    "prev", io)
    ELSE Result([st EXCEPT !.current_saved_index = 0], <<>>, Quiet("prev"))

load_next_saved(st, io) ==
    IF get_saved_views_list(st.saved_dir) = <<>> THEN Result(st, <<>>, Quiet("next"))
    ELSE IF st.current_saved_index < Len(get_saved_views_list(st.saved_dir)) - 1
    THEN load_saved([st EXCEPT !.current_saved_index = st.current_saved_index + 1],
                    "next", io)
    ELSE Result([st EXCEPT !.current_saved_index =
                    Len(get_saved_views_list(st.saved_dir)) - 1], <<>>, Quiet("next"))

\* reset_data of _recenter_map: start level 8 of an 18-level pyramid
StartLevelScale == 512
CenterOffsetPercent == -115
CenterX == (Dimensions.width * 1000) \div (2 * StartLevelScale)
CenterY == (Dimensions.height * 1000) \div (2 * StartLevelScale)
reset_data ==
    [image_name |-> "slide", zoom |-> 0,
     center |-> <<(CenterY * CenterOffsetPercent) \div 100, CenterX>>,
     annotations |-> <<>>, timestamp |-> "py"]

recenter_map(st, io) ==
    Result([set_annotation_data(st, PyData, reset_data, io)
              EXCEPT !.current_saved_index = -1],
           <<LoadTrigger(reset_data)>>, Pushed("recenter", st))

\* _toggle_minimap: the action payload goes through annotation_data too
ToggleData == [origin |-> "py", n |-> 1]
toggle_data == [action |-> "toggle_minimap", timestamp |-> "py"]

toggle_minimap(st, io) ==
    Result(set_annotation_data(st, ToggleData, toggle_data, io),
           <<LoadTrigger(toggle_data)>>, Pushed("minimap", st))

save_current_view(st) ==
    Result([st EXCEPT !.manual_save_pending = TRUE], <<SaveTrigger>>, Quiet("save"))

\* the redo finds a later file to step forward to
redo_steps_forward(st) ==
    /\ IndexOf(file_numbers(st.live_dir), st.current_live_index) > 0
    /\ IndexOf(file_numbers(st.live_dir), st.current_live_index)
         < Len(file_numbers(st.live_dir))

\* _load_prev_saved / _load_next_saved find a view to step to
prev_has_target(st) ==
    get_saved_views_list(st.saved_dir) # <<>> /\ st.current_saved_index > 0

next_has_target(st) ==
    /\ get_saved_views_list(st.saved_dir) # <<>>
    /\ st.current_saved_index < Len(get_saved_views_list(st.saved_dir)) - 1

\* ------------------------------------------------- the status of an image
NoStatuses == [image \in {} |-> None]
DefaultStatus == [done |-> FALSE, ink_found |-> FALSE]

\* utility.load_ink_status: the image's record of the consolidated file,
\* the default if the file cannot be read or has no record of the image
load_ink_status(file, image_name, io) ==
    IF io.status_read = "ok" /\ image_name \in DOMAIN file
    THEN file[image_name] ELSE DefaultStatus

\* utility.save_ink_status, as the new content of the consolidated file:
\* a file that cannot be read counts as empty, a failed write leaves it
save_ink_status(file, image_name, done, ink_found, io) ==
    LET all_statuses == IF io.status_read = "ok" THEN file ELSE NoStatuses
    IN IF io.status_write
       THEN SetKey(all_statuses, image_name,
                   [done |-> done, ink_found |-> ink_found, last_updated |-> "py"])
       ELSE file

\* the two file accesses of save_ink_status taken apart: what the read
\* leaves in all_statuses, and the file after the write of all_statuses
\* with the image's record set
read_statuses(file, io) == IF io.status_read = "ok" THEN file ELSE NoStatuses

write_statuses(all_statuses, image_name, done, ink_found, file, io) ==
    IF io.status_write
    THEN SetKey(all_statuses, image_name,
                [done |-> done, ink_found |-> ink_found, last_updated |-> "py"])
    ELSE file

\* the store's status fields and the consolidated file as one record
Status ==
    [done_status |-> done_status, ink_found_status |-> ink_found_status,
     status_file |-> status_file]

CommitStatus(s) ==
    /\ done_status' = s.done_status
    /\ ink_found_status' = s.ink_found_status
    /\ status_file' = s.status_file

set_status(s, done, ink_found, io) ==
    [done_status |-> done, ink_found_status |-> ink_found,
     status_file |-> save_ink_status(s.status_file, "slide", done, ink_found, io)]

\* a _mark_done that clears ink_found only when the image becomes done
mark_done_keeps_ink(s, io) ==
    set_status(s, ~s.done_status,
               IF s.done_status THEN s.ink_found_status ELSE FALSE, io)

\* a _mark_ink_found as its docstring has it: between all true and all false
mark_ink_found_sets_both(s, io) ==
    set_status(s, ~s.ink_found_status, ~s.ink_found_status, io)

\* _mark_done: both branches of its if clear ink_found
mark_done(s, io) == set_status(s, ~s.done_status, FALSE, io)

\* _mark_ink_found
mark_ink_found(s, io) == set_status(s, s.done_status, ~s.ink_found_status, io)

\* the status lines of _save_current_view
save_view_status(s, io) == set_status(s, TRUE, TRUE, io)

\* ------------------------------------------------------------ the actions
\* The browser runs the script of a trigger change as soon as the store
\* makes it: the scripts touch only the browser's own state, so running
\* them later, after other steps of the store, gives the store nothing
\* else to see.  What stays in flight is the browser's answer.
Browser(out) ==
    IF out = <<>> THEN /\ ui' = ui
                       /\ toPy' = toPy
    ELSE IF Head(out).kind = "save"
    THEN /\ toPy' = Append(toPy, get_annotations_data(ui))
         /\ ui' = ui
    ELSE /\ ui' = on_load_trigger(ui, Head(out).data)
         /\ toPy' = toPy

Apply(r) ==
    /\ Commit(r.st)
    /\ Browser(r.out)
    /\ ev' = r.ev

\* the state of what runs apart from this session
ServerVars == <<dzi_disk, response>>
KeyVars == <<DEFAULT_SHORTCUTS, shortcuts, config_file, last_save, key_op,
             key_ops_left>>
BuildVars == <<slide, pc_build, tile_coords, total_tiles, next_task, running,
               results, success_count, metadata, out_dir, failures_left,
               viewer_level_dimensions, failed_tasks>>
Outside == <<ServerVars, KeyVars, BuildVars>>
Apart == <<peer, Outside>>

Frame == <<disk_faults, index_cap, saved_cap, Apart>>

\* what only the status buttons, the Save View button, the navigation and
\* a second session change
StatusFrame == <<done_status, ink_found_status, status_file>>
Aside == <<StatusFrame, views_expected, last_read, other, stale>>

\* a step of the store that is not the arrival of a snapshot
NoArrival == received' = received

Click == clicks_left > 0 /\ clicks_left' = clicks_left - 1 /\ edits_left' = edits_left

NoInput == UNCHANGED <<clicks_left, edits_left>>

\* the 1-second periodic callback
PeriodicCheck ==
    /\ NoInput
    /\ NoArrival
    /\ HasRoom
    /\ live_tracking_index < index_cap
    /\ Apply(check_and_save_if_changed(Self))
    /\ UNCHANGED <<Frame, Aside, time_since_undo>>

Undo ==
    /\ Click
    /\ NoArrival
    /\ \E io \in IoOutcomes :
         /\ Apply(undo_annotation(Self, io))
         /\ time_since_undo' = IF undo_steps_back(Self) THEN 0 ELSE time_since_undo
         /\ last_read' = IF undo_steps_back(Self) THEN io.read ELSE "-"
         /\ stale' = IF undo_annotation(Self, io).ev.pushed THEN Len(toPy) ELSE stale
    /\ UNCHANGED <<Frame, StatusFrame, views_expected, other>>

Redo ==
    /\ Click
    /\ NoArrival
    /\ \E io \in IoOutcomes :
         /\ Apply(redo_annotation(Self, io))
         /\ last_read' = IF redo_steps_forward(Self) THEN io.read ELSE "-"
         /\ stale' = IF redo_annotation(Self, io).ev.pushed THEN Len(toPy) ELSE stale
    /\ UNCHANGED <<Frame, StatusFrame, views_expected, other, time_since_undo>>

LoadPrevSaved ==
    /\ Click
    /\ NoArrival
    /\ \E io \in IoOutcomes :
         /\ Apply(load_prev_saved(Self, io))
         /\ last_read' = IF prev_has_target(Self) THEN io.read ELSE "-"
    /\ UNCHANGED <<Frame, StatusFrame, views_expected, other, stale, time_since_undo>>

LoadNextSaved ==
    /\ Click
    /\ NoArrival
    /\ \E io \in IoOutcomes :
         /\ Apply(load_next_saved(Self, io))
         /\ last_read' = IF next_has_target(Self) THEN io.read ELSE "-"
    /\ UNCHANGED <<Frame, StatusFrame, views_expected, other, stale, time_since_undo>>

Recenter ==
    /\ Click
    /\ NoArrival
    /\ live_tracking_index < index_cap
    /\ \E io \in IoOutcomes : Apply(recenter_map(Self, io))
    /\ UNCHANGED <<Frame, Aside, time_since_undo>>

ToggleMinimap ==
    /\ Click
    /\ NoArrival
    /\ live_tracking_index < index_cap
    /\ \E io \in IoOutcomes : Apply(toggle_minimap(Self, io))
    /\ UNCHANGED <<Frame, Aside, time_since_undo>>

SaveCurrentView ==
    /\ Click
    /\ NoArrival
    /\ HasRoom
    /\ Cardinality(DOMAIN saved_dir) < saved_cap
    /\ Apply(save_current_view(Self))
    /\ \E io \in IoOutcomes : CommitStatus(save_view_status(Status, io))
    /\ views_expected' = views_expected + 1
    /\ UNCHANGED <<Frame, last_read, other, stale, time_since_undo>>

Store == <<live_dir, saved_dir, live_tracking_index, current_live_index,
           last_saved_state, initial_state_saved, current_saved_index,
           manual_save_pending, is_loading_state, time_since_navigation,
           annotation_data>>

MarkDone ==
    /\ Click
    /\ NoArrival
    /\ \E io \in IoOutcomes : CommitStatus(mark_done(Status, io))
    /\ ev' = Quiet("done")
    /\ UNCHANGED <<Store, ui, toPy, Frame, views_expected, last_read, other,
                   stale, time_since_undo>>

MarkInkFound ==
    /\ Click
    /\ NoArrival
    /\ \E io \in IoOutcomes : CommitStatus(mark_ink_found(Status, io))
    /\ ev' = Quiet("ink")
    /\ UNCHANGED <<Store, ui, toPy, Frame, views_expected, last_read, other,
                   stale, time_since_undo>>

\* the lines of __init__ that a second session on the same image runs on
\* the directory as it finds it
other_session(live) ==
    [open |-> TRUE,
     live_tracking_index |-> get_next_live_tracking_number(live),
     current_live_index |-> (IF get_next_live_tracking_number(live) > 0
                             THEN get_next_live_tracking_number(live) - 1 ELSE -1),
     last_saved_state |-> None, initial_state_saved |-> FALSE]

\* no second session
Closed ==
    [open |-> FALSE, live_tracking_index |-> 0, current_live_index |-> -1,
     last_saved_state |-> None, initial_state_saved |-> FALSE]

\* the second session as a store: its own fields, the same directories
OtherSelf ==
    [Self EXCEPT !.live_tracking_index = other.live_tracking_index,
                 !.current_live_index = other.current_live_index,
                 !.last_saved_state = other.last_saved_state,
                 !.initial_state_saved = other.initial_state_saved,
                 !.current_saved_index = -1,
                 !.manual_save_pending = FALSE,
                 !.is_loading_state = FALSE,
                 !.time_since_navigation = GracePeriod,
                 !.annotation_data = InitData]

\* a second user opens the same image: app.py creates a SVSAnnotationTool
\* for that session
OtherOpen ==
    /\ ~other.open
    /\ other' = other_session(live_dir)
    /\ ev' = Quiet("other_open")
    /\ NoInput
    /\ NoArrival
    /\ UNCHANGED <<Store, ui, toPy, Frame, StatusFrame, views_expected, last_read,
                   stale, time_since_undo>>

\* a snapshot of the second session's browser, showing the view v, arrives
\* at the second session's store
OtherArrival ==
    /\ other.open
    /\ other.live_tracking_index < index_cap
    /\ \E v \in Views, io \in IoOutcomes :
         LET st == on_annotation_data_change(OtherSelf, get_annotations_data(v), io)
         IN /\ live_dir' = st.live_dir
            /\ other' = [other EXCEPT
                            !.live_tracking_index = st.live_tracking_index,
                            !.current_live_index = st.current_live_index,
                            !.last_saved_state = st.last_saved_state,
                            !.initial_state_saved = st.initial_state_saved]
    /\ ev' = Quiet("other_arrival")
    /\ NoInput
    /\ NoArrival
    /\ UNCHANGED <<saved_dir, live_tracking_index, current_live_index,
                   last_saved_state, initial_state_saved, current_saved_index,
                   manual_save_pending, is_loading_state, time_since_navigation,
                   annotation_data, ui, toPy, Frame, StatusFrame, views_expected,
                   last_read, stale, time_since_undo>>

\* a session on the image other_slide, served by another thread or
\* process, presses Mark Done: save_ink_status reads the file ...
PeerRead ==
    /\ peer.pc = "idle"
    /\ peer.saves_left > 0
    /\ \E io \in IoOutcomes :
         peer' = [pc |-> "write", all_statuses |-> read_statuses(status_file, io),
                  done |-> ~peer.done, saves_left |-> peer.saves_left - 1]
    /\ ev' = Quiet("peer_read")
    /\ NoInput
    /\ NoArrival
    /\ UNCHANGED <<Store, ui, toPy, disk_faults, index_cap, saved_cap, Aside,
                   time_since_undo, Outside>>

\* ... and writes it back with its own record set
PeerWrite ==
    /\ peer.pc = "write"
    /\ \E io \in IoOutcomes :
         status_file' = write_statuses(peer.all_statuses, "other_slide", peer.done,
                                       FALSE, status_file, io)
    /\ peer' = [peer EXCEPT !.pc = "idle", !.all_statuses = NoStatuses]
    /\ ev' = Quiet("peer_write")
    /\ NoInput
    /\ NoArrival
    /\ UNCHANGED <<Store, ui, toPy, disk_faults, index_cap, saved_cap,
                   done_status, ink_found_status, views_expected, last_read,
                   other, stale, time_since_undo, Outside>>

\* the browser's annotation_data arrives: the param is set, the watcher runs
Deliver ==
    /\ NoInput
    /\ toPy # <<>>
    /\ toPy' = Tail(toPy)
    /\ received' = TRUE
    /\ \E io \in IoOutcomes :
         /\ Commit(set_annotation_data(Self, JsData, Head(toPy), io))
         /\ ev' = [Quiet("deliver") EXCEPT !.again = received]
    /\ stale' = IF stale > 0 THEN stale - 1 ELSE 0
    /\ UNCHANGED <<ui, Frame, StatusFrame, views_expected, last_read, other,
                   time_since_undo>>

\* the user pans, zooms or draws
UserEdit ==
    /\ edits_left > 0
    /\ edits_left' = edits_left - 1
    /\ clicks_left' = clicks_left
    /\ \E v \in Views : v # ui /\ ui' = v
    /\ ev' = Quiet("edit")
    /\ UNCHANGED <<live_dir, saved_dir, live_tracking_index, current_live_index,
                   last_saved_state, initial_state_saved, current_saved_index,
                   manual_save_pending, is_loading_state, time_since_navigation,
                   annotation_data, toPy, Frame, Aside, time_since_undo, received>>

\* a second passes
Tick ==
    /\ time_since_navigation < GracePeriod
    /\ time_since_navigation' = time_since_navigation + 1
    /\ time_since_undo' = IF time_since_undo < GracePeriod
                          THEN time_since_undo + 1 ELSE time_since_undo
    /\ NoInput
    /\ ev' = Quiet("tick")
    /\ UNCHANGED <<live_dir, saved_dir, live_tracking_index, current_live_index,
                   last_saved_state, initial_state_saved, current_saved_index,
                   manual_save_pending, is_loading_state,
                   annotation_data, ui, toPy, Frame, Aside, received>>

EmptyDir == [n \in {} |-> None]

\* every variable of the sessions
Session == <<Store, ui, toPy, clicks_left, edits_left, time_since_undo, received,
             ev, Aside, disk_faults, index_cap, saved_cap, peer>>

\* ---- dzi_server.py ----
\* a path is the sequence of its segments; the directories above a path
Prefixes(path) == {SubSeq(path, 1, k) : k \in 0..(Len(path) - 1)}

\* os.path.exists and os.path.isdir of os.path.join(DZI_BASE_DIR, path)
exists(disk, path) == path \in disk.files \/ path \in disk.dirs
isdir(disk, path) == path \in disk.dirs

\* what a view function does: it returns a response or raises an
\* exception; abort(code) raises the HTTPException of that code
Returned(code) == [raised |-> FALSE, code |-> code]
abort(code) == [raised |-> TRUE, code |-> code]

list_directory(disk, path) ==
    IF ~exists(disk, path) \/ ~isdir(disk, path) THEN abort(404) ELSE Returned(200)

\* send_from_directory raises NotFound for a file that is not there
send_from_directory(found) == IF found THEN Returned(200) ELSE abort(404)

\* the try block of serve_file
serve_file_try(disk, filepath) ==
    IF ~exists(disk, filepath) THEN abort(404)
    ELSE IF isdir(disk, filepath) THEN list_directory(disk, filepath)
    ELSE send_from_directory(TRUE)

\* except Exception: abort(500); HTTPException is an Exception
serve_file(disk, filepath) ==
    IF serve_file_try(disk, filepath).raised THEN abort(500)
    ELSE serve_file_try(disk, filepath)

\* the routes: /, /static/<path:filename>, /health, /<path:filepath>;
\* static_found: the file is in the directory the static route serves
route(disk, url, static_found) ==
    IF url = <<>> THEN list_directory(disk, <<>>)
    ELSE IF Head(url) = "static" /\ Len(url) > 1 THEN send_from_directory(static_found)
    ELSE IF url = <<"health">> THEN Returned(200)
    ELSE serve_file(disk, url)

\* the requests a viewer makes of a one-slide dataset, and two stray ones
Urls == {<<>>, <<"health">>, <<"static", "minimap.js">>, <<"slide.dzi">>,
         <<"slide_files">>, <<"slide_files", "0">>, <<"slide_files", "0", "0_0.png">>,
         <<"slide_files", "1", "0_0.png">>, <<"slide_files", "1", "1_0.png">>,
         <<"favicon.ico">>}

Datasets == {<<"slide.dzi">>, <<"slide_files", "0", "0_0.png">>,
             <<"slide_files", "1", "0_0.png">>, <<"slide_files", "1", "1_0.png">>}

\* a GET request is answered
Request ==
    /\ \E url \in Urls, static_found \in BOOLEAN :
         response' = [url |-> url, code |-> route(dzi_disk, url, static_found).code]
    /\ UNCHANGED <<Session, dzi_disk, KeyVars, BuildVars>>

\* no session on another image is saving a status
NoPeer == [pc |-> "idle", all_statuses |-> NoStatuses, done |-> FALSE, saves_left |-> 0]

PeerIdle == peer = NoPeer

\* no tile server
NoDisk == [files |-> {}, dirs |-> {}]
NoResponse == [url |-> <<>>, code |-> 0]
ServerIdle == dzi_disk = NoDisk /\ response = NoResponse

\* ---- keyboard_shortcuts.py ----
\* the shortcut operations of a run
MaxKeyOps == 2

\* two of the ten shipped actions with their shipped keys
Shipped == ("undo" :> <<"Ctrl+Z", "Cmd+Z">>) @@ ("save" :> <<"S">>)

\* a table entry is the inner dict of the default table (by reference) or
\* a dict of its own, with or without a 'keys' item
Shared == [ref |-> "default", has_keys |-> TRUE, keys |-> <<>>]
Own(keys) == [ref |-> "own", has_keys |-> TRUE, keys |-> keys]
Keyless == [ref |-> "own", has_keys |-> FALSE, keys |-> <<>>]

\* DEFAULT_SHORTCUTS.copy(): a new outer dict over the same inner dicts
shallow_copy(defaults) == [a \in DOMAIN defaults |-> Shared]

\* what a table reads as: json.dump writes this, config['keys'] gives this
Resolve(table, defaults) ==
    [a \in DOMAIN table |->
       IF table[a].ref = "default"
       THEN [has_keys |-> TRUE, keys |-> defaults[a]]
       ELSE [has_keys |-> table[a].has_keys, keys |-> table[a].keys]]

\* the config file: absent, not JSON, or the JSON of a table
NoFile == [state |-> "absent", table |-> << >>]
Corrupt == [state |-> "corrupt", table |-> << >>]
Json(resolved) == [state |-> "json", table |-> resolved]

\* load_shortcuts that forgets the file
load_shortcuts_defaults_only(defaults, file) ==
    [defaults |-> defaults, shortcuts |-> shallow_copy(defaults)]

\* load_shortcuts: the table returned and what the default table holds
\* afterwards; merged[key] is the default table's own inner dict
load_shortcuts(defaults, file) ==
    IF file = NoFile \/ file = Corrupt
    THEN [defaults |-> defaults, shortcuts |-> shallow_copy(defaults)]
    ELSE [defaults |->
            [a \in DOMAIN defaults |->
               IF a \in DOMAIN file.table /\ file.table[a].has_keys
               THEN file.table[a].keys
               ELSE defaults[a]],
          shortcuts |-> shallow_copy(defaults)]

\* find_conflicts: the keys more than one action uses
KeysOf(entry) == {entry.keys[i] : i \in 1..Len(entry.keys)}

find_conflicts(resolved) ==
    {k \in UNION {KeysOf(resolved[a]) : a \in DOMAIN resolved} :
       Cardinality({a \in DOMAIN resolved : k \in KeysOf(resolved[a])}) > 1}

\* how a save can end: written; the open fails; the chmod after the write fails
SaveOutcomes == {"ok", "open", "chmod"}

\* save_shortcuts(table): the file, the manager's table and the result
save_shortcuts(table, defaults, file, mine, outcome) ==
    [file |-> IF outcome = "open" THEN file ELSE Json(Resolve(table, defaults)),
     shortcuts |-> IF outcome = "ok" THEN table ELSE mine,
     ok |-> outcome = "ok"]

\* the operation commits a save's result
Saved(table, defaults, r, op) ==
    /\ config_file' = r.file
    /\ shortcuts' = r.shortcuts
    /\ DEFAULT_SHORTCUTS' = defaults
    /\ last_save' = [s |-> Resolve(table, defaults), ok |-> r.ok]
    /\ key_op' = op

\* one more shortcut operation
KeyOp == key_ops_left > 0 /\ key_ops_left' = key_ops_left - 1

\* the key lists a user may give an action
KeyLists == {<<>>, <<"S">>, <<"Ctrl+U", "Cmd+U">>}

\* the tables a caller may hand to save_shortcuts: a known and an unknown
\* action, either of them left out, entries with and without keys
Names == {"undo", "zoom"}
Tables ==
    UNION {[names -> {Keyless, Own(<<"Ctrl+U", "Cmd+U">>)}] : names \in SUBSET Names}

\* KeyboardShortcutManager(config_file): app.py makes one for each session
NewManager ==
    /\ KeyOp
    /\ shortcuts' = load_shortcuts(DEFAULT_SHORTCUTS, config_file).shortcuts
    /\ DEFAULT_SHORTCUTS' = load_shortcuts(DEFAULT_SHORTCUTS, config_file).defaults
    /\ key_op' = "new"
    /\ UNCHANGED <<config_file, last_save>>
    /\ UNCHANGED <<Session, ServerVars, BuildVars>>

\* manager.save_shortcuts(table)
SaveTable ==
    /\ KeyOp
    /\ \E table \in Tables, outcome \in SaveOutcomes :
         Saved(table, DEFAULT_SHORTCUTS,
               save_shortcuts(table, DEFAULT_SHORTCUTS, config_file, shortcuts, outcome),
               "save")
    /\ UNCHANGED <<Session, ServerVars, BuildVars>>

\* the settings modal's Save button: a new dict for every action of the
\* manager's table, saved unless keys conflict
SaveSettings ==
    /\ KeyOp
    /\ \E keys \in [DOMAIN shortcuts -> KeyLists], outcome \in SaveOutcomes :
         LET updated_shortcuts == [a \in DOMAIN shortcuts |-> Own(keys[a])]
         IN /\ find_conflicts(Resolve(updated_shortcuts, DEFAULT_SHORTCUTS)) = {}
            /\ Saved(updated_shortcuts, DEFAULT_SHORTCUTS,
                     save_shortcuts(updated_shortcuts, DEFAULT_SHORTCUTS, config_file,
                                    shortcuts, outcome),
                     "save_settings")
    /\ UNCHANGED <<Session, ServerVars, BuildVars>>

\* test_shortcuts.py: t = manager.shortcuts.copy(); t[action]['keys'] = keys;
\* manager.save_shortcuts(t)
CustomiseAndSave ==
    /\ KeyOp
    /\ \E action \in DOMAIN shortcuts, keys \in KeyLists, outcome \in SaveOutcomes :
         LET defaults == IF shortcuts[action].ref = "default"
                         THEN SetKey(DEFAULT_SHORTCUTS, action, keys)
                         ELSE DEFAULT_SHORTCUTS
             table == IF shortcuts[action].ref = "default" THEN shortcuts
                      ELSE SetKey(shortcuts, action, Own(keys))
         IN Saved(table, defaults,
                  save_shortcuts(table, defaults, config_file, table, outcome),
                  "customise")
    /\ UNCHANGED <<Session, ServerVars, BuildVars>>

\* manager.reset_to_defaults()
ResetToDefaults ==
    /\ KeyOp
    /\ \E outcome \in SaveOutcomes :
         Saved(shallow_copy(DEFAULT_SHORTCUTS), DEFAULT_SHORTCUTS,
               save_shortcuts(shallow_copy(DEFAULT_SHORTCUTS), DEFAULT_SHORTCUTS,
                              config_file, shallow_copy(DEFAULT_SHORTCUTS), outcome),
               "reset")
    /\ UNCHANGED <<Session, ServerVars, BuildVars>>

\* manager.reset_shortcut(action_name)
ResetShortcut ==
    /\ KeyOp
    /\ \E action_name \in DOMAIN DEFAULT_SHORTCUTS, outcome \in SaveOutcomes :
         LET table == SetKey(shortcuts, action_name, Own(DEFAULT_SHORTCUTS[action_name]))
         IN Saved(table, DEFAULT_SHORTCUTS,
                  save_shortcuts(table, DEFAULT_SHORTCUTS, config_file, table, outcome),
                  "reset_one")
    /\ UNCHANGED <<Session, ServerVars, BuildVars>>

\* no process has imported keyboard_shortcuts
KeysIdle ==
    /\ DEFAULT_SHORTCUTS = Shipped
    /\ shortcuts = shallow_copy(Shipped)
    /\ config_file = NoFile
    /\ last_save = [s |-> << >>, ok |-> FALSE]
    /\ key_op = "off"
    /\ key_ops_left = 0

\* ---- convert_to_dzi.py ----
\* workers of the pool
MaxWorkers == 2
\* tile tasks that fail in a run
MaxFailures == 2

recommended_start_level == 10
tile_size_default == 256

\* int(math.ceil(a / b))
Ceil(a, b) == (a + b - 1) \div b

\* DeepZoomGenerator: the sizes from the full image down to 1 x 1, each
\* max(1, ceil(z / 2)) of the one before
Halve(z) == IF Ceil(z, 2) < 1 THEN 1 ELSE Ceil(z, 2)

RECURSIVE z_dimensions(_, _)
z_dimensions(width, height) ==
    IF width > 1 \/ height > 1
    THEN <<<<width, height>>>> \o z_dimensions(Halve(width), Halve(height))
    ELSE <<<<width, height>>>>

\* dz.level_dimensions[level] is level_dimensions(...)[level + 1]
level_dimensions(width, height) ==
    [i \in 1..Len(z_dimensions(width, height)) |->
       z_dimensions(width, height)[Len(z_dimensions(width, height)) + 1 - i]]

level_count(width, height) == Len(z_dimensions(width, height))

\* a grid that rounds the tile count down
tiles_floor(z_lim, tile_size) == z_lim \div tile_size

\* DeepZoomGenerator: tiles in one direction of a level
tiles(z_lim, tile_size) == Ceil(z_lim, tile_size)

\* dz.level_tiles[level] is level_tiles(...)[level + 1]
level_tiles(width, height, tile_size) ==
    [i \in 1..level_count(width, height) |->
       <<tiles(level_dimensions(width, height)[i][1], tile_size),
         tiles(level_dimensions(width, height)[i][2], tile_size)>>]

\* for col in range(cols): for row in range(rows): append (level, col, row)
level_coords(level, cols, rows) ==
    [k \in 1..(cols * rows) |-> <<level, (k - 1) \div rows, (k - 1) % rows>>]

\* for level in range(dz.level_count): the tasks of levels 0 .. upto - 1
RECURSIVE coords_upto(_, _)
coords_upto(grid, upto) ==
    IF upto = 0 THEN <<>>
    ELSE coords_upto(grid, upto - 1)
         \o level_coords(upto - 1, grid[upto][1], grid[upto][2])

RECURSIVE tiles_upto(_, _)
tiles_upto(grid, upto) ==
    IF upto = 0 THEN 0
    ELSE tiles_upto(grid, upto - 1) + grid[upto][1] * grid[upto][2]

\* a tile file named without its level directory
tile_path_flat(level, col, row) ==
    <<"slide_files", ToString(col) \o "_" \o ToString(row) \o ".png">>

\* os.path.join(tiles_dir, str(level), f"{col}_{row}.png"), below output_dir
tile_path(level, col, row) ==
    <<"slide_files", ToString(level),
      ToString(col) \o "_" \o ToString(row) \o ".png">>

dzi_file == <<"slide.dzi">>
metadata_file == <<"slide_metadata.json">>

\* the multiplier with the first threshold not strict
center_offset_y_from(width, height) ==
    IF 10 * width >= 15 * height THEN -125
    ELSE IF 10 * width > 12 * height THEN -115
    ELSE IF 10 * width > 9 * height THEN 0
    ELSE IF 10 * width > 7 * height THEN 50
    ELSE 100

\* the center offset multiplier, in hundredths; aspect_ratio > 1.5 is
\* 10 * width > 15 * height
center_offset_y(width, height) ==
    IF 10 * width > 15 * height THEN -125
    ELSE IF 10 * width > 12 * height THEN -115
    ELSE IF 10 * width > 9 * height THEN 0
    ELSE IF 10 * width > 7 * height THEN 50
    ELSE 100

NoMetadata == [state |-> "none"]
IndexError == [state |-> "IndexError"]

\* calculate_viewer_metadata: dz.level_tiles[recommended_start_level] raises
\* IndexError when the pyramid has no such level
calculate_viewer_metadata(width, height, tile_size) ==
    IF recommended_start_level >= level_count(width, height) THEN IndexError
    ELSE [state |-> "metadata",
          original_dimensions |-> <<width, height>>,
          dzi_levels |-> level_count(width, height),
          recommended_start_level |-> recommended_start_level,
          tiles_at_start_level |->
            level_tiles(width, height, tile_size)[recommended_start_level + 1],
          center_offset_y |-> center_offset_y(width, height),
          tile_size |-> 256,
          overlap |-> 1]

\* lines 70-80: the descriptor is written
WriteDescriptor ==
    /\ pc_build = "start"
    /\ out_dir' = out_dir \cup {dzi_file}
    /\ pc_build' = "plan"
    /\ UNCHANGED <<failed_tasks, viewer_level_dimensions, slide, tile_coords, total_tiles, next_task, running, results,
                   success_count, metadata, failures_left>>
    /\ UNCHANGED <<Session, ServerVars, KeyVars>>

\* lines 82-103: the list of tile tasks
PlanTiles ==
    /\ pc_build = "plan"
    /\ tile_coords' = coords_upto(level_tiles(slide.width, slide.height, slide.tile_size),
                                  level_count(slide.width, slide.height))
    /\ total_tiles' = tiles_upto(level_tiles(slide.width, slide.height, slide.tile_size),
                                 level_count(slide.width, slide.height))
    /\ pc_build' = "pool"
    /\ UNCHANGED <<failed_tasks, viewer_level_dimensions, slide, next_task, running, results, success_count, metadata,
                   out_dir, failures_left>>
    /\ UNCHANGED <<Session, ServerVars, KeyVars>>

\* a free worker of the pool takes the next task
StartTile ==
    /\ pc_build = "pool"
    /\ next_task <= Len(tile_coords)
    /\ Cardinality(running) < slide.num_workers
    /\ running' = running \cup {next_task}
    /\ next_task' = next_task + 1
    /\ UNCHANGED <<failed_tasks, viewer_level_dimensions, slide, pc_build, tile_coords, total_tiles, results, success_count,
                   metadata, out_dir, failures_left>>
    /\ UNCHANGED <<Session, ServerVars, KeyVars>>

\* save_tile_worker returns: True with the tile saved, False after an
\* exception; the result reaches the loop of line 108
FinishTile ==
    /\ pc_build = "pool"
    /\ \E task \in running, saved \in BOOLEAN :
         /\ ~saved => failures_left > 0
         /\ failures_left' = IF saved THEN failures_left ELSE failures_left - 1
         /\ running' = running \ {task}
         /\ results' = Append(results, saved)
         /\ failed_tasks' = IF saved THEN failed_tasks ELSE failed_tasks \cup {task}
         /\ out_dir' = IF saved
                        THEN out_dir \cup {tile_path(tile_coords[task][1],
                                                     tile_coords[task][2],
                                                     tile_coords[task][3])}
                        ELSE out_dir
    /\ UNCHANGED <<viewer_level_dimensions, slide, pc_build, tile_coords, total_tiles, next_task,
                   success_count, metadata>>
    /\ UNCHANGED <<Session, ServerVars, KeyVars>>

\* a count that stops at the first False
RECURSIVE sum_until_false(_)
sum_until_false(values) ==
    IF values = <<>> \/ ~Head(values) THEN 0 ELSE 1 + sum_until_false(Tail(values))

\* sum(results): the number of True
RECURSIVE sum(_)
sum(values) ==
    IF values = <<>> THEN 0
    ELSE (IF Head(values) THEN 1 ELSE 0) + sum(Tail(values))

\* lines 113-114: imap_unordered is exhausted, the pool is left
CountResults ==
    /\ pc_build = "pool"
    /\ Len(results) = Len(tile_coords)
    /\ success_count' = sum(results)
    /\ pc_build' = "metadata"
    /\ UNCHANGED <<failed_tasks, viewer_level_dimensions, slide, tile_coords, total_tiles, next_task, running, results,
                   metadata, out_dir, failures_left>>
    /\ UNCHANGED <<Session, ServerVars, KeyVars>>

\* lines 116-131: the metadata is calculated and written, unless the
\* calculation raises
SaveMetadata ==
    /\ pc_build = "metadata"
    /\ metadata' = calculate_viewer_metadata(slide.width, slide.height, slide.tile_size)
    /\ IF metadata' = IndexError
       THEN pc_build' = "raised" /\ out_dir' = out_dir
       ELSE pc_build' = "done" /\ out_dir' = out_dir \cup {metadata_file}
    /\ UNCHANGED <<failed_tasks, viewer_level_dimensions, slide, tile_coords, total_tiles, next_task, running, results,
                   success_count, failures_left>>
    /\ UNCHANGED <<Session, ServerVars, KeyVars>>

\* SVSAnnotationTool.__init__, lines 107-122: the level dimensions a
\* session works out from the metadata's original_dimensions and dzi_levels
session_level_dimensions(width, height, dzi_levels) ==
    [i \in 1..dzi_levels |->
       <<IF width \div (2 ^ (dzi_levels - i)) < 1 THEN 1
         ELSE width \div (2 ^ (dzi_levels - i)),
         IF height \div (2 ^ (dzi_levels - i)) < 1 THEN 1
         ELSE height \div (2 ^ (dzi_levels - i))>>]

\* a viewer session is opened on the converted slide
OpenViewer ==
    /\ pc_build = "done"
    /\ viewer_level_dimensions = <<>>
    /\ viewer_level_dimensions' =
         session_level_dimensions(metadata.original_dimensions[1],
                                  metadata.original_dimensions[2], metadata.dzi_levels)
    /\ UNCHANGED <<slide, pc_build, tile_coords, total_tiles, next_task, running,
                   results, success_count, metadata, out_dir, failures_left,
                   failed_tasks>>
    /\ UNCHANGED <<Session, ServerVars, KeyVars>>

NextBuild ==
    \/ WriteDescriptor
    \/ PlanTiles
    \/ StartTile
    \/ FinishTile
    \/ CountResults
    \/ SaveMetadata
    \/ OpenViewer

\* convert_svs_to_dzi has just been called on an empty output_dir
BuildStart ==
    /\ pc_build = "start"
    /\ tile_coords = <<>>
    /\ total_tiles = 0
    /\ next_task = 1
    /\ running = {}
    /\ results = <<>>
    /\ success_count = 0
    /\ metadata = NoMetadata
    /\ out_dir = {}
    /\ viewer_level_dimensions = <<>>
    /\ failed_tasks = {}

\* no conversion
BuildIdle ==
    /\ slide = [width |-> 1, height |-> 1, tile_size |-> tile_size_default,
                num_workers |-> 1]
    /\ pc_build = "off"
    /\ tile_coords = <<>>
    /\ total_tiles = 0
    /\ next_task = 1
    /\ running = {}
    /\ results = <<>>
    /\ success_count = 0
    /\ metadata = NoMetadata
    /\ out_dir = {}
    /\ viewer_level_dimensions = <<>>
    /\ failed_tasks = {}
    /\ failures_left = 0

\* nothing of the repository but the sessions is running
OutsideIdle ==
    /\ ServerIdle
    /\ KeysIdle
    /\ BuildIdle

\* nothing else of the repository is running
Elsewhere ==
    /\ PeerIdle
    /\ OutsideIdle

\* files earlier sessions left behind: three live-tracking snapshots, with
\* a gap in the numbering, and two saved views
S0 == with_dimensions(get_annotations_data(UiA))
S1 == with_dimensions(get_annotations_data(UiB))
S2 == with_dimensions(get_annotations_data(UiA2))
OldLive == (0 :> S0) @@ (1 :> S1) @@ (3 :> S2)
OldSaved == (0 :> saved_view_json(get_annotations_data(UiB)))
            @@ (1 :> saved_view_json(get_annotations_data(UiA)))

\* SVSAnnotationTool.__init__; _navigation_timestamp = 0 is the epoch, more
\* than a grace period ago
InitStore ==
    /\ live_tracking_index = get_next_live_tracking_number(live_dir)
    /\ current_live_index =
         (IF live_tracking_index > 0 THEN live_tracking_index - 1 ELSE -1)
    /\ last_saved_state = None
    /\ initial_state_saved = FALSE
    /\ current_saved_index = -1
    /\ manual_save_pending = FALSE
    /\ is_loading_state = FALSE
    /\ time_since_navigation = GracePeriod
    /\ annotation_data = InitData
    /\ ui = UiA
    /\ toPy = <<>>
    /\ time_since_undo = GracePeriod
    /\ received = FALSE
    /\ ev = Quiet("init")
    /\ \E io \in IoOutcomes :
         /\ done_status = Get(load_ink_status(status_file, "slide", io), "done", FALSE)
         /\ ink_found_status =
              Get(load_ink_status(status_file, "slide", io), "ink_found", FALSE)
    /\ views_expected = Cardinality(DOMAIN saved_dir)
    /\ last_read = "-"
    /\ stale = 0

\* a session on an image annotated before, with a user who presses a few
\* buttons and edits the view a few times
InitSession ==
    /\ live_dir = OldLive
    /\ saved_dir = OldSaved
    /\ status_file = NoStatuses
    /\ InitStore
    /\ other = Closed
    /\ Elsewhere
    /\ index_cap = live_tracking_index + MaxAppends
    /\ saved_cap = Cardinality(DOMAIN saved_dir) + MaxSaved
    /\ clicks_left = MaxClicks
    /\ edits_left = MaxEdits

Init == disk_faults = {} /\ InitSession

Next ==
    \/ PeriodicCheck
    \/ Undo
    \/ Redo
    \/ LoadPrevSaved
    \/ LoadNextSaved
    \/ Recenter
    \/ SaveCurrentView
    \/ Deliver
    \/ UserEdit
    \/ Tick

Spec == Init /\ [][Next]_vars

\* a session in which the user presses buttons but leaves the view alone
InitButtons ==
    /\ live_dir = OldLive
    /\ saved_dir = OldSaved
    /\ status_file = NoStatuses
    /\ disk_faults = {}
    /\ InitStore
    /\ other = Closed
    /\ Elsewhere
    /\ index_cap = live_tracking_index + MaxAppends
    /\ saved_cap = Cardinality(DOMAIN saved_dir) + MaxSaved
    /\ clicks_left = MaxClicks + 1
    /\ edits_left = 0

NextButtons ==
    \/ PeriodicCheck
    \/ Undo
    \/ Redo
    \/ LoadPrevSaved
    \/ LoadNextSaved
    \/ Recenter
    \/ SaveCurrentView
    \/ Deliver
    \/ Tick

SpecButtons == InitButtons /\ [][NextButtons]_vars

\* the same, with fewer buttons pressed, on a disk whose reads may fail
InitFaulty ==
    /\ live_dir = OldLive
    /\ saved_dir = OldSaved
    /\ status_file = NoStatuses
    /\ disk_faults = {"read"}
    /\ InitStore
    /\ other = Closed
    /\ Elsewhere
    /\ index_cap = live_tracking_index + MaxAppends
    /\ saved_cap = Cardinality(DOMAIN saved_dir) + MaxSaved
    /\ clicks_left = MaxClicks
    /\ edits_left = 0

SpecFaulty == InitFaulty /\ [][NextButtons]_vars

\* what runs without the user: the periodic callback keeps firing, the
\* browser's answers keep arriving, time keeps passing
FairSpecFaulty ==
    /\ InitFaulty
    /\ [][NextButtons]_vars
    /\ WF_vars(PeriodicCheck)
    /\ WF_vars(Deliver)
    /\ WF_vars(Tick)

\* a session in which the user edits the view, saves views and steps
\* through the saved views
NextViews ==
    \/ PeriodicCheck
    \/ LoadPrevSaved
    \/ LoadNextSaved
    \/ SaveCurrentView
    \/ Deliver
    \/ UserEdit
    \/ Tick

SpecViews == Init /\ [][NextViews]_vars

\* a session on a new image: the user only edits the view, often enough
\* for the live-tracking directory to fill up and overflow by five files
InitBurst ==
    /\ live_dir = EmptyDir
    /\ saved_dir = EmptyDir
    /\ status_file = NoStatuses
    /\ disk_faults = {}
    /\ InitStore
    /\ other = Closed
    /\ Elsewhere
    /\ index_cap = max_files + 5
    /\ saved_cap = 0
    /\ clicks_left = 0
    /\ edits_left = max_files + 5

NextBurst ==
    \/ PeriodicCheck
    \/ Deliver
    \/ UserEdit

SpecBurst == InitBurst /\ [][NextBurst]_vars

\* a session in which the user only steps back and forth through the
\* live-tracking files, so that every answer in flight is the answer to a
\* periodic request
NextUndo ==
    \/ PeriodicCheck
    \/ Undo
    \/ Redo
    \/ Deliver
    \/ Tick

SpecUndo == InitButtons /\ [][NextUndo]_vars

\* a session in which the user edits the view, saves views, steps back
\* and sends the viewer the two commands: recenter and minimap toggle
NextCommands ==
    \/ PeriodicCheck
    \/ Undo
    \/ Recenter
    \/ ToggleMinimap
    \/ SaveCurrentView
    \/ Deliver
    \/ UserEdit
    \/ Tick

SpecCommands == Init /\ [][NextCommands]_vars

\* a session on a new image or on one annotated before, in which the user
\* edits the view, steps back and forth through the live-tracking files
\* and recenters
InitPosition ==
    /\ live_dir \in {EmptyDir, OldLive}
    /\ saved_dir = EmptyDir
    /\ status_file = NoStatuses
    /\ disk_faults = {}
    /\ InitStore
    /\ other = Closed
    /\ Elsewhere
    /\ index_cap = live_tracking_index + MaxAppends
    /\ saved_cap = 0
    /\ clicks_left = MaxClicks
    /\ edits_left = MaxEdits

NextPosition ==
    \/ PeriodicCheck
    \/ Undo
    \/ Redo
    \/ Recenter
    \/ Deliver
    \/ UserEdit
    \/ Tick

SpecPosition == InitPosition /\ [][NextPosition]_vars

\* a session in which the user edits the view, on a disk on which writing
\* a file may fail
InitWriteFaulty ==
    /\ live_dir \in {EmptyDir, OldLive}
    /\ saved_dir = EmptyDir
    /\ status_file = NoStatuses
    /\ disk_faults = {"write"}
    /\ InitStore
    /\ other = Closed
    /\ Elsewhere
    /\ index_cap = live_tracking_index + MaxAppends
    /\ saved_cap = 0
    /\ clicks_left = 0
    /\ edits_left = MaxEdits + 1

SpecWriteFaulty == InitWriteFaulty /\ [][NextBurst]_vars

\* a session on an image with live-tracking files and no saved view yet,
\* in which the user presses buttons and may save one view more
InitFresh ==
    /\ live_dir = OldLive
    /\ saved_dir = EmptyDir
    /\ status_file = NoStatuses
    /\ disk_faults = {}
    /\ InitStore
    /\ other = Closed
    /\ Elsewhere
    /\ index_cap = live_tracking_index + MaxAppends
    /\ saved_cap = MaxSaved + 1
    /\ clicks_left = MaxClicks + 1
    /\ edits_left = 0

SpecFresh == InitFresh /\ [][NextButtons]_vars

\* two sessions on a new image: this one, whose user edits the view, and
\* a second one that opens at some moment
InitShared ==
    /\ live_dir = EmptyDir
    /\ saved_dir = EmptyDir
    /\ status_file = NoStatuses
    /\ disk_faults = {}
    /\ InitStore
    /\ other = Closed
    /\ Elsewhere
    /\ index_cap = live_tracking_index + MaxAppends
    /\ saved_cap = 0
    /\ clicks_left = 0
    /\ edits_left = MaxEdits

NextShared ==
    \/ PeriodicCheck
    \/ Deliver
    \/ UserEdit
    \/ OtherOpen
    \/ OtherArrival

SpecShared == InitShared /\ [][NextShared]_vars

\* what ink_status.json may hold when a session opens: nothing, a record
\* of another image only, or also a record of this image
StatusRecord(done, ink_found) ==
    [done |-> done, ink_found |-> ink_found, last_updated |-> "py"]

OtherImage == ("other_slide" :> StatusRecord(TRUE, FALSE))

OldStatuses ==
    {NoStatuses, OtherImage}
      \cup {("slide" :> StatusRecord(done, ink_found)) @@ OtherImage :
              done \in BOOLEAN, ink_found \in BOOLEAN}

\* a session in which the user presses the status buttons and Save View
InitStatus ==
    /\ live_dir = EmptyDir
    /\ saved_dir \in {EmptyDir, OldSaved}
    /\ status_file \in OldStatuses
    /\ disk_faults = {}
    /\ InitStore
    /\ other = Closed
    /\ Elsewhere
    /\ index_cap = live_tracking_index + MaxAppends
    /\ saved_cap = Cardinality(DOMAIN saved_dir) + MaxSaved
    /\ clicks_left = MaxClicks + 1
    /\ edits_left = 0

NextStatus ==
    \/ MarkDone
    \/ MarkInkFound
    \/ SaveCurrentView
    \/ Deliver

SpecStatus == InitStatus /\ [][NextStatus]_vars

\* the same on a disk on which reading ink_status.json may fail
InitStatusFaulty ==
    /\ live_dir = EmptyDir
    /\ saved_dir \in {EmptyDir, OldSaved}
    /\ status_file \in OldStatuses
    /\ disk_faults = {"status_read"}
    /\ InitStore
    /\ other = Closed
    /\ Elsewhere
    /\ index_cap = live_tracking_index + MaxAppends
    /\ saved_cap = Cardinality(DOMAIN saved_dir) + MaxSaved
    /\ clicks_left = MaxClicks + 1
    /\ edits_left = 0

SpecStatusFaulty == InitStatusFaulty /\ [][NextStatus]_vars

\* two sessions on two images that both have a status record; each user
\* presses status buttons
InitPeers ==
    /\ live_dir = EmptyDir
    /\ saved_dir = EmptyDir
    /\ \E done \in BOOLEAN, ink_found \in BOOLEAN, peer_done \in BOOLEAN :
         /\ status_file = ("slide" :> StatusRecord(done, ink_found))
                            @@ ("other_slide" :> StatusRecord(peer_done, FALSE))
         /\ peer = [pc |-> "idle", all_statuses |-> NoStatuses, done |-> peer_done,
                    saves_left |-> MaxClicks]
    /\ OutsideIdle
    /\ disk_faults = {}
    /\ InitStore
    /\ other = Closed
    /\ index_cap = live_tracking_index + MaxAppends
    /\ saved_cap = 0
    /\ clicks_left = MaxClicks
    /\ edits_left = 0

NextPeers ==
    \/ MarkDone
    \/ MarkInkFound
    \/ PeerRead
    \/ PeerWrite

SpecPeers == InitPeers /\ [][NextPeers]_vars

\* no session is open
NoSession ==
    /\ live_dir = EmptyDir
    /\ saved_dir = EmptyDir
    /\ status_file = NoStatuses
    /\ disk_faults = {}
    /\ InitStore
    /\ other = Closed
    /\ PeerIdle
    /\ index_cap = 0
    /\ saved_cap = 0
    /\ clicks_left = 0
    /\ edits_left = 0

\* the tile server over a volume that holds any part of a dataset, with the
\* directories of its files and possibly empty ones
InitServer ==
    /\ NoSession
    /\ \E files \in SUBSET Datasets, empty \in SUBSET {<<>>, <<"slide_files">>} :
         dzi_disk = [files |-> files,
                     dirs |-> UNION {Prefixes(f) : f \in files}
                              \cup UNION {Prefixes(d) \cup {d} : d \in empty}]
    /\ response = NoResponse
    /\ KeysIdle
    /\ BuildIdle

SpecServer == InitServer /\ [][Request]_vars

\* a process that has imported keyboard_shortcuts and made its first
\* manager, over a config file that is absent, unreadable or was written by
\* an earlier process
InitKeys ==
    /\ NoSession
    /\ ServerIdle
    /\ BuildIdle
    /\ \E file \in {NoFile, Corrupt} \cup {Json(Resolve(t, Shipped)) : t \in Tables} :
         /\ config_file = file
         /\ shortcuts = load_shortcuts(Shipped, file).shortcuts
         /\ DEFAULT_SHORTCUTS = load_shortcuts(Shipped, file).defaults
    /\ last_save = [s |-> << >>, ok |-> FALSE]
    /\ key_op = "new"
    /\ key_ops_left = MaxKeyOps

NextKeys ==
    \/ NewManager
    \/ SaveTable
    \/ SaveSettings
    \/ CustomiseAndSave
    \/ ResetToDefaults
    \/ ResetShortcut

SpecKeys == InitKeys /\ [][NextKeys]_vars

\* conversions of a slide whose pyramid has eleven levels and of one whose
\* pyramid has seven, with the default tile size, in which tile tasks may fail
InitBuild ==
    /\ NoSession
    /\ ServerIdle
    /\ KeysIdle
    /\ \E size \in {<<600, 200>>, <<40, 30>>}, num_workers \in 1..MaxWorkers :
         slide = [width |-> size[1], height |-> size[2],
                  tile_size |-> tile_size_default, num_workers |-> num_workers]
    /\ failures_left = MaxFailures
    /\ BuildStart

SpecBuild == InitBuild /\ [][NextBuild]_vars

\* the same conversions with one failing task fewer
InitOrder ==
    /\ NoSession
    /\ ServerIdle
    /\ KeysIdle
    /\ \E size \in {<<600, 200>>, <<40, 30>>}, num_workers \in 1..MaxWorkers :
         slide = [width |-> size[1], height |-> size[2],
                  tile_size |-> tile_size_default, num_workers |-> num_workers]
    /\ failures_left = MaxFailures - 1
    /\ BuildStart

SpecOrder == InitOrder /\ [][NextBuild]_vars

\* conversions of slides of many sizes and shapes at three tile sizes, one
\* worker, no failing task
Widths == {1, 2, 255, 256, 257, 500, 700, 800, 900, 1000, 1200, 1300, 2000}
Heights == {1, 256, 257, 800, 900, 1000}
TileSizes == {254, 256, 512}

InitGrid ==
    /\ NoSession
    /\ ServerIdle
    /\ KeysIdle
    /\ \E width \in Widths, height \in Heights, tile_size \in TileSizes :
         slide = [width |-> width, height |-> height, tile_size |-> tile_size,
                  num_workers |-> 1]
    /\ failures_left = 0
    /\ BuildStart

SpecGrid == InitGrid /\ [][NextBuild]_vars

\* snapshots to compare: a plain one and its neighbours at and beyond each
\* tolerance, with other polylines, and with keys left out
Polyline(color, weight, coordinates) ==
    [type |-> "polyline", coordinates |-> coordinates, color |-> color,
     weight |-> weight]

Snapshot(zoom, center, annotations) ==
    [image_name |-> "slide", zoom |-> zoom, center |-> center,
     annotations |-> annotations, timestamp |-> "js"]

Line1 == Polyline("red", 3, << <<20, 10>>, <<40, 30>> >>)

Snapshots ==
    {Snapshot(8000, <<500, 500>>, <<>>),
     Snapshot(8010, <<500, 500>>, <<>>),
     Snapshot(8011, <<500, 500>>, <<>>),
     Snapshot(8000, <<600, 500>>, <<>>),
     Snapshot(8000, <<601, 500>>, <<>>),
     Snapshot(8000, <<500, 400>>, <<>>),
     Snapshot(8000, <<500, 399>>, <<>>),
     Snapshot(5, <<0, 0>>, <<>>),
     [image_name |-> "slide", timestamp |-> "js"],
     Snapshot(8000, <<500, 500>>, <<Line1>>),
     Snapshot(8000, <<500, 500>>, <<Line1, Line1>>),
     Snapshot(8000, <<500, 500>>, <<Polyline("blue", 3, Line1.coordinates)>>),
     Snapshot(8000, <<500, 500>>, <<Polyline("red", 4, Line1.coordinates)>>),
     Snapshot(8000, <<500, 500>>, <<[Line1 EXCEPT !.type = "polygon"]>>),
     Snapshot(8000, <<500, 500>>, <<[type |-> "polyline",
                                     coordinates |-> Line1.coordinates]>>),
     Snapshot(8000, <<500, 500>>, <<Polyline("red", 3, << <<20, 10>> >>)>>),
     Snapshot(8000, <<500, 500>>, <<Polyline("red", 3, << <<21, 10>>, <<40, 29>> >>)>>),
     Snapshot(8000, <<500, 500>>, <<Polyline("red", 3, << <<20, 10>>, <<42, 30>> >>)>>),
     Snapshot(8000, <<500, 500>>, <<Polyline("red", 3, << <<20, 12>>, <<40, 30>> >>)>>),
     Snapshot(8000, <<500, 500>>,
              <<Line1, Polyline("red", 3, << <<20, 10>>, <<40, 32>> >>)>>)}

\* a session that has saved its first snapshot, state2, with the browser's
\* next snapshot, state1, on its way
InitCompare ==
    /\ \E state1 \in Snapshots, state2 \in Snapshots :
         /\ live_dir = (0 :> with_dimensions(state2))
         /\ last_saved_state = with_dimensions(state2)
         /\ toPy = <<state1>>
    /\ saved_dir = EmptyDir
    /\ live_tracking_index = get_next_live_tracking_number(live_dir)
    /\ current_live_index = 0
    /\ initial_state_saved = TRUE
    /\ current_saved_index = -1
    /\ manual_save_pending = FALSE
    /\ is_loading_state = FALSE
    /\ time_since_navigation = GracePeriod
    /\ annotation_data = JsData
    /\ ui = UiA
    /\ time_since_undo = GracePeriod
    /\ received = TRUE
    /\ ev = Quiet("deliver")
    /\ done_status = FALSE
    /\ ink_found_status = FALSE
    /\ status_file = NoStatuses
    /\ views_expected = Cardinality(DOMAIN saved_dir)
    /\ last_read = "-"
    /\ stale = 0
    /\ other = Closed
    /\ Elsewhere
    /\ disk_faults = {}
    /\ index_cap = live_tracking_index + 1
    /\ saved_cap = 0
    /\ clicks_left = 0
    /\ edits_left = 0

SpecCompare == InitCompare /\ [][Deliver]_vars

\* ================================================================ claims
\* the view the browser shows once it has loaded the payload data
Shown(data) == load_annotations_data(ui, data)

\* the live-tracking file numbers below / above the current position
Below == {n \in DOMAIN live_dir : n < current_live_index}
Above == {n \in DOMAIN live_dir : n > current_live_index}

\* C1: a periodic change-check that fires less than 2 seconds after an undo
\* that stepped back asks the browser for nothing and writes nothing: no
\* live-tracking file comes of it, whatever was loaded or shown
C1_NoSaveInGraceAfterUndo ==
    [][(ev'.op = "check" /\ time_since_undo < GracePeriod)
         => /\ toPy' = toPy
            /\ live_dir' = live_dir
            /\ live_tracking_index' = live_tracking_index
            /\ last_saved_state' = last_saved_state]_vars

\* a check has just fired within the grace period of an undo that loaded S1
C1_Witness ==
    /\ ev.op = "check"
    /\ time_since_undo < GracePeriod
    /\ current_live_index = 1
    /\ ~is_loading_state

\* C3: undo from position i loads the file with the greatest number below
\* i, pushes it to the browser and makes it the current position and the
\* reference; redo does the same with the smallest number above i
C3_NearestNeighbour ==
    [][/\ (ev'.op = "undo" /\ Below # {})
           => /\ ev'.pushed
              /\ ui' = Shown(live_dir[Max(Below)])
              /\ current_live_index' = Max(Below)
              /\ last_saved_state' = live_dir[Max(Below)]
       /\ (ev'.op = "redo" /\ Above # {})
           => /\ ev'.pushed
              /\ ui' = Shown(live_dir[Min(Above)])
              /\ current_live_index' = Min(Above)
              /\ last_saved_state' = live_dir[Min(Above)]]_vars

\* a redo has just stepped over the gap in the numbering, from 1 to 3
C3_Witness ==
    /\ ev.op = "redo"
    /\ ev.pushed
    /\ current_live_index = 3
    /\ 2 \notin DOMAIN live_dir
    /\ ui = UiA2

\* the snapshot that arrives in a Deliver step is written as the next
\* live-tracking file and becomes the reference
Appended ==
    /\ live_tracking_index' = live_tracking_index + 1
    /\ live_tracking_index \in DOMAIN live_dir'
    /\ live_dir'[live_tracking_index] = with_dimensions(Head(toPy))
    /\ current_live_index' = live_tracking_index
    /\ last_saved_state' = with_dimensions(Head(toPy))
    /\ saved_dir' = saved_dir

Discarded ==
    UNCHANGED <<live_dir, saved_dir, live_tracking_index, current_live_index,
                last_saved_state>>

\* a snapshot from the browser arrives outside LOADING_STATE and outside a
\* manual save
LiveTrackingArrival ==
    /\ ev'.op = "deliver"
    /\ ~is_loading_state
    /\ ~manual_save_pending

\* C2: with live-tracking files [S0, S1, S2] and the current position on
\* S2, an undo loads S1 and the redo after it loads S2, and neither adds a
\* file to the live-tracking or the saved-views sequence: afterwards the
\* position is on S2 again and S2 is the reference
C2_RoundTrip ==
    [][/\ (ev'.op = "undo" /\ live_dir = OldLive /\ current_live_index = 3)
           => /\ ui' = Shown(S1)
              /\ current_live_index' = 1
              /\ live_dir' = live_dir
              /\ saved_dir' = saved_dir
       /\ (ev'.op = "redo" /\ ev.op = "undo" /\ ev.pushed
              /\ live_dir = OldLive /\ current_live_index = 1)
           => /\ ui' = Shown(S2)
              /\ current_live_index' = 3
              /\ last_saved_state' = S2
              /\ live_dir' = live_dir
              /\ saved_dir' = saved_dir]_vars

\* C4: a snapshot that arrives from the browser while the LOADING_STATE
\* flag is set only becomes the reference: the flag is cleared and no file
\* is written to the live-tracking or the saved-views sequence
C4_ReferenceUpdateOnly ==
    [][(ev'.op = "deliver" /\ is_loading_state)
         => /\ last_saved_state' = Head(toPy)
            /\ ~is_loading_state'
            /\ live_dir' = live_dir
            /\ saved_dir' = saved_dir]_vars

C6_FlagsBeforePush ==
    ev.pushed => ev.flag_at_push /\ ev.stamped_at_push

\* C7: no snapshot request and no navigation load is started while an
\* earlier snapshot request is still waiting for the browser's answer
C7_OneInFlight ==
    [][toPy # <<>> => Len(toPy') <= Len(toPy) /\ ~ev'.pushed]_vars

\* C8: undo at the earliest snapshot, redo at the latest, load previous
\* saved at the first view (or with no view loaded yet) and load next saved
\* at the last write no file and leave position, cursor, reference, flag
\* and navigation timestamp as they were
C8_BoundariesChangeNothing ==
    [][(\/ ev'.op = "undo" /\ Below = {}
        \/ ev'.op = "redo" /\ Above = {}
        \/ ev'.op = "prev" /\ current_saved_index <= 0
        \/ ev'.op = "next"
             /\ current_saved_index >= Len(get_saved_views_list(saved_dir)) - 1)
         => UNCHANGED <<live_dir, saved_dir, current_live_index,
                        current_saved_index, last_saved_state,
                        is_loading_state, time_since_navigation>>]_vars

\* C9: the LOADING_STATE flag never stays set forever, also after a
\* navigation whose read failed, returned nothing or raised
C9_FlagEventuallyCleared == is_loading_state ~> ~is_loading_state

\* C10: the live-tracking directory never holds more than max_files files,
\* and after max_files + 5 appends to an empty directory it holds exactly
\* the max_files highest numbers: 0..4 are gone
C10_EvictionCap ==
    /\ Cardinality(DOMAIN live_dir) <= max_files
    /\ live_tracking_index = max_files + 5
         => DOMAIN live_dir = 5..(max_files + 4)

\* max_files + 5 snapshots have been appended
C10_Witness ==
    /\ live_tracking_index = max_files + 5
    /\ Cardinality(DOMAIN live_dir) = max_files
    /\ 4 \notin DOMAIN live_dir

\* the difference of a numeric field of two snapshots, a missing field
\* counting as 0
Gap(x, y) == IF x < y THEN y - x ELSE x - y
Zoom(state) == IF "zoom" \in DOMAIN state THEN state.zoom ELSE 0
Center(state) == IF "center" \in DOMAIN state THEN state.center ELSE <<0, 0>>
Annos(state) == IF "annotations" \in DOMAIN state THEN state.annotations ELSE <<>>
Coords(anno) == IF "coordinates" \in DOMAIN anno THEN anno.coordinates ELSE <<>>
Field(anno, k) == IF k \in DOMAIN anno THEN <<anno[k]>> ELSE <<>>

\* the five conditions, one by one, over the positions both snapshots have
Differs(a, b) ==
    LET paired == 1..(IF Len(Annos(a)) < Len(Annos(b))
                      THEN Len(Annos(a)) ELSE Len(Annos(b)))
        points(i) == 1..(IF Len(Coords(Annos(a)[i])) < Len(Coords(Annos(b)[i]))
                         THEN Len(Coords(Annos(a)[i]))
                         ELSE Len(Coords(Annos(b)[i])))
    IN \/ Gap(Zoom(a), Zoom(b)) > ZoomTol
       \/ \E axis \in 1..2 : Gap(Center(a)[axis], Center(b)[axis]) > CenterTol
       \/ Len(Annos(a)) # Len(Annos(b))
       \/ \E i \in paired :
            \/ \E k \in {"type", "color", "weight"} :
                 Field(Annos(a)[i], k) # Field(Annos(b)[i], k)
            \/ Len(Coords(Annos(a)[i])) # Len(Coords(Annos(b)[i]))
       \/ \E i \in paired : \E j \in points(i) : \E axis \in 1..2 :
            Gap(Coords(Annos(a)[i])[j][axis], Coords(Annos(b)[i])[j][axis]) > CoordTol

\* C16: the comparison of an arriving snapshot with the reference says
\* "different" exactly when the zoom differs by more than 0.01, a center
\* coordinate by more than 0.1, the annotation counts differ, two
\* annotations at a position differ in type, color, weight or coordinate
\* count, or two coordinates at a position differ by more than 0.001; and
\* the arrival appends a live-tracking file exactly in that case
C16_ComparisonExact ==
    [][ev'.op = "deliver"
         => /\ compare_states(Head(toPy), last_saved_state)
                 <=> Differs(Head(toPy), last_saved_state)
            /\ live_tracking_index' # live_tracking_index
                 <=> Differs(Head(toPy), last_saved_state)
            /\ live_dir' # live_dir
                 <=> Differs(Head(toPy), last_saved_state)]_vars

\* a snapshot whose zoom is 0.011 from the reference's has arrived and was
\* appended as the second file, and nothing else differs
C16_Witness ==
    /\ ev.op = "deliver"
    /\ toPy = <<>>
    /\ index_cap = 2
    /\ live_tracking_index = 2
    /\ Zoom(live_dir[0]) = 8000
    /\ Zoom(live_dir[1]) = 8011
    /\ Center(live_dir[0]) = Center(live_dir[1])
    /\ Annos(live_dir[0]) = Annos(live_dir[1])

\* C15: a snapshot compared with itself, or with itself as the reference
\* keeps it, is unchanged; an arriving snapshot that is the reference is not
\* appended; and as long as the user has not touched the view, however
\* often its snapshot has arrived, the directory holds exactly one file
C15_Idempotent ==
    [][ev'.op = "deliver"
         => /\ ~compare_states(Head(toPy), Head(toPy))
            /\ ~compare_states(Head(toPy), with_dimensions(Head(toPy)))
            /\ (initial_state_saved /\ with_dimensions(Head(toPy)) = last_saved_state)
                 => UNCHANGED <<live_dir, live_tracking_index, last_saved_state>>
            /\ edits_left' = max_files + 5
                 => /\ Cardinality(DOMAIN live_dir') = 1
                    /\ live_tracking_index' = 1]_vars

\* the snapshot of the untouched view has arrived a second time or later,
\* and there is one file
C15_Witness ==
    /\ ev.op = "deliver"
    /\ ev.again
    /\ edits_left = max_files + 5
    /\ DOMAIN live_dir = {0}
    /\ last_saved_state = live_dir[0]

\* the record of this image in ink_status.json is (done, ink_found)
Persisted(file, done, ink_found) ==
    /\ "slide" \in DOMAIN file
    /\ file["slide"].done = done
    /\ file["slide"].ink_found = ink_found

\* C17: Mark Done toggles done and leaves ink_found false, whatever both
\* were, in the store and in the image's persisted record; pressed twice
\* in a row on an image without a record it ends with both false
C17_MarkDone ==
    [][ev'.op = "done"
         => /\ done_status' = ~done_status
            /\ ink_found_status' = FALSE
            /\ Persisted(status_file', ~done_status, FALSE)
            /\ (ev.op = "done" /\ done_status)
                 => /\ ~done_status'
                    /\ ~ink_found_status'
                    /\ Persisted(status_file', FALSE, FALSE)]_vars

\* Mark Done was pressed twice, and nothing else, on an image of which
\* ink_status.json, empty before, had no record: done and ink_found are
\* false, in the store and in the record
C17_Witness ==
    /\ ev.op = "done"
    /\ clicks_left = MaxClicks - 1
    /\ views_expected = Cardinality(DOMAIN saved_dir)
    /\ DOMAIN status_file = {"slide"}
    /\ ~done_status
    /\ ~ink_found_status
    /\ Persisted(status_file, FALSE, FALSE)

NextViewIndex == IF DOMAIN saved_dir = {} THEN 0 ELSE Max(DOMAIN saved_dir) + 1

\* C13: Save View makes the image done with ink found, in the store and in
\* its persisted record; the snapshot that arrives for a pending save is
\* written as the saved view after the last one and not as a live-tracking
\* file; and once every answer has arrived there is one more saved view
\* for each Save View pressed
C13_SaveViewOnePerRequest ==
    [][/\ ev'.op = "save"
            => done_status' /\ ink_found_status'
               /\ Persisted(status_file', TRUE, TRUE)
       /\ (ev'.op = "deliver" /\ manual_save_pending)
            => /\ DOMAIN saved_dir' = DOMAIN saved_dir \cup {NextViewIndex}
               /\ live_dir' = live_dir
       /\ toPy' = <<>> => Cardinality(DOMAIN saved_dir') = views_expected']_vars

\* C14: no step of the session (append, eviction, undo, redo, navigation,
\* save) removes a saved view or changes the content found under its
\* number, and a saved view that appears is numbered 0 if it is the first
\* and one more than the last otherwise, whatever the live-tracking
\* counter is
C14_SavedViewsKept ==
    [][/\ \A n \in DOMAIN saved_dir :
            n \in DOMAIN saved_dir' /\ saved_dir'[n] = saved_dir[n]
       /\ \A n \in DOMAIN saved_dir' \ DOMAIN saved_dir : n = NextViewIndex]_vars

\* two views were saved, as 0 and 1, while the live-tracking counter stood
\* at 4 or more, and an append has evicted live-tracking file 0
C14_Witness ==
    /\ DOMAIN saved_dir = {0, 1}
    /\ 0 \notin DOMAIN live_dir
    /\ live_tracking_index > 4
    /\ saved_cap = MaxSaved + 1

\* C19: an undo, redo, load-previous-saved or load-next-saved whose target
\* file cannot be read (it is gone, or it does not parse) pushes nothing to
\* the browser and leaves the live position, the saved-views cursor and the
\* reference as they were
C19_UnreadableIsAbsent ==
    [][(ev'.op \in {"undo", "redo", "prev", "next"} /\ last_read' \in {"none", "raise"})
         => /\ ~ev'.pushed
            /\ ui' = ui
            /\ toPy' = toPy
            /\ current_live_index' = current_live_index
            /\ current_saved_index' = current_saved_index
            /\ last_saved_state' = last_saved_state]_vars

\* C20: a status save (Mark Done, Mark Ink Found, Save View), also one
\* that cannot read ink_status.json, leaves the records of all other
\* images in the file as they were
C20_OtherRecordsKept ==
    [][ev'.op \in {"done", "ink", "save"}
         => \A image \in DOMAIN status_file \ {"slide"} :
               /\ image \in DOMAIN status_file'
               /\ status_file'[image] = status_file[image]]_vars

\* the index after the last live-tracking file on disk, 0 if there is none
NextLiveIndex == IF DOMAIN live_dir = {} THEN 0 ELSE Max(DOMAIN live_dir) + 1

\* C11: a session that appends a live-tracking file writes it under the
\* index after the last file on disk at that moment (0 on an empty
\* directory), and its next append gets a greater index
C11_AppendAtMaxPlusOne ==
    [][/\ live_tracking_index' # live_tracking_index
            => /\ live_tracking_index = NextLiveIndex
               /\ live_tracking_index' > live_tracking_index
       /\ (other.open /\ other'.live_tracking_index # other.live_tracking_index)
            => /\ other.live_tracking_index = NextLiveIndex
               /\ other'.live_tracking_index > other.live_tracking_index]_vars

\* C12: a live-tracking or saved-view file, once written, keeps its
\* content under every later step of either session; a live-tracking file
\* may disappear, a saved view may not
C12_ImmutableOnceWritten ==
    [][/\ \A n \in DOMAIN live_dir \cap DOMAIN live_dir' : live_dir'[n] = live_dir[n]
       /\ \A n \in DOMAIN saved_dir :
            n \in DOMAIN saved_dir' /\ saved_dir'[n] = saved_dir[n]]_vars

\* C30: the answer to a periodic request made before an undo or redo that
\* loaded a file, arriving after it, adds no live-tracking file and leaves
\* the current position on the file that was loaded
C30_StaleAnswerDropped ==
    [][(ev'.op = "deliver" /\ stale > 0)
         => /\ live_dir' = live_dir
            /\ live_tracking_index' = live_tracking_index
            /\ current_live_index' = current_live_index]_vars

\* C29: whenever no status save is under way, ink_status.json holds for
\* each of the two images the record its session wrote last
C29_NoLostStatus ==
    peer.pc = "idle"
      => /\ Persisted(status_file, done_status, ink_found_status)
         /\ "other_slide" \in DOMAIN status_file
         /\ status_file["other_slide"].done = peer.done

\* C26: a request for a path that is not on the disk is answered with 404
ServedPath(url) == url # <<>> /\ url # <<"health">> /\ Head(url) # "static"

C26_MissingIs404 ==
    (response # NoResponse /\ ServedPath(response.url)
       /\ ~exists(dzi_disk, response.url))
      => response.code = 404

\* the keys the manager reports for an action
Reported(action) == Resolve(shortcuts, DEFAULT_SHORTCUTS)[action]

\* C27: once reset_to_defaults has run, every action has its shipped keys
\* and the default table holds the shipped keys, whatever was customised,
\* saved and loaded before
C27_ResetRestoresShipped ==
    key_op = "reset"
      => /\ DEFAULT_SHORTCUTS = Shipped
         /\ \A action \in DOMAIN Shipped :
              /\ action \in DOMAIN shortcuts
              /\ Reported(action).keys = Shipped[action]

\* C28: a manager made right after a successful save_shortcuts(s) reports,
\* for every known action s gave keys to, those keys
C28_SaveLoadRoundTrip ==
    (key_op = "new" /\ last_save.ok)
      => \A action \in DOMAIN Shipped \cap DOMAIN last_save.s :
           last_save.s[action].has_keys
             => /\ action \in DOMAIN shortcuts
                /\ Reported(action).keys = last_save.s[action].keys

C28_Witness ==
    /\ key_op = "new"
    /\ last_save.ok
    /\ DOMAIN last_save.s = {"undo", "zoom"}
    /\ last_save.s["undo"].keys = <<"Ctrl+U", "Cmd+U">>
    /\ Reported("undo").keys = <<"Ctrl+U", "Cmd+U">>
    /\ Reported("save").keys = <<"S">>

\* the tile grid of a level, the tasks the levels call for, the tile files
\* written, the tasks that have failed
Grid(level) == level_tiles(slide.width, slide.height, slide.tile_size)[level + 1]
Levels == 0..(level_count(slide.width, slide.height) - 1)
Called ==
    LET grid == level_tiles(slide.width, slide.height, slide.tile_size)
    IN UNION {{<<level, col, row>> : col \in 0..(grid[level + 1][1] - 1),
                                     row \in 0..(grid[level + 1][2] - 1)} :
                level \in Levels}
PathOf(task) == tile_path(tile_coords[task][1], tile_coords[task][2], tile_coords[task][3])
TileFiles == out_dir \ {dzi_file, metadata_file}
Planned == pc_build \in {"pool", "metadata", "done", "raised"}
Failed == Cardinality({i \in 1..Len(results) : ~results[i]})
TasksOf(level) == {i \in 1..Len(tile_coords) : tile_coords[i][1] = level}

\* C21: the tasks are the triples (level, col, row) of the grids, one task
\* each, total_tiles is their number, the tasks' files are pairwise
\* different, and the tile files on disk are files of finished tasks, one
\* for each task that succeeded
C21_OneTaskPerTile ==
    Planned
      => LET called == Called
         IN /\ {tile_coords[i] : i \in 1..Len(tile_coords)} = called
            /\ Len(tile_coords) = Cardinality(called)
            /\ total_tiles = Cardinality(called)
            /\ Cardinality({PathOf(i) : i \in 1..Len(tile_coords)}) = Len(tile_coords)
            /\ next_task - 1 = Cardinality(running) + Len(results)
            /\ TileFiles \subseteq {PathOf(i) : i \in 1..(next_task - 1) \ running}
            /\ Cardinality(TileFiles) = Len(results) - Failed

C21_Witness ==
    /\ pc_build = "done"
    /\ slide.width = 2000 /\ slide.height = 1000 /\ slide.tile_size = 256
    /\ total_tiles = 51
    /\ Cardinality(TileFiles) = 51
    /\ <<"slide_files", "11", "7_3.png">> \in out_dir

\* C22: a run in which tile tasks failed has waited for every task, counts
\* the tasks that succeeded, keeps their tiles and writes the metadata
C22_FailuresDoNotAbort ==
    (pc_build \in {"done", "raised"} /\ Failed > 0)
      => /\ running = {}
         /\ Len(results) = total_tiles
         /\ success_count + Failed = total_tiles
         /\ Cardinality(TileFiles) = success_count
         /\ pc_build = "done"
         /\ metadata_file \in out_dir

\* C23: while a tile task is pending or running, neither the descriptor nor
\* the metadata file is on disk
C23_FilesAfterTiles ==
    (pc_build = "pool" /\ Len(results) < Len(tile_coords))
      => dzi_file \notin out_dir /\ metadata_file \notin out_dir

\* C24: the grid of the full-resolution level is the least number of tiles
\* that covers the width and the height, it has cols * rows tasks, 1000 x
\* 1000 at 256 gives 4 x 4, 1200 x 900 gives 5 x 4 = 20, and level 0 is one
\* tile no larger than the tile size
Top == level_count(slide.width, slide.height) - 1

Ratio(n, d) == slide.width * d = slide.height * n
RatioAbove(n, d) == slide.width * d > slide.height * n

C37_MetadataForEveryImage ==
    pc_build \in {"metadata", "done", "raised"}
      => /\ pc_build # "raised"
         /\ pc_build = "done"
              => /\ metadata.state = "metadata"
                 /\ metadata_file \in out_dir
                 /\ metadata.recommended_start_level >= 0
                 /\ metadata.recommended_start_level < metadata.dzi_levels

\* C38: the level dimensions of the session are those of the pyramid: at
\* every level, width and height over 2^(L-1-level), rounded up
C38_LevelDimensionsAgree ==
    viewer_level_dimensions # <<>>
      => /\ viewer_level_dimensions = level_dimensions(slide.width, slide.height)
         /\ \A level \in Levels :
              viewer_level_dimensions[level + 1]
                = <<Ceil(slide.width, 2 ^ (Top - level)),
                    Ceil(slide.height, 2 ^ (Top - level))>>

\* C39: in whatever order the tasks finished, a finished build has the
\* tile of every task that did not fail and no other file, counts those
\* tasks, and has the metadata of the image
C39_OrderIndependent ==
    pc_build \in {"done", "raised"}
      => /\ TileFiles = {PathOf(task) : task \in (1..Len(tile_coords)) \ failed_tasks}
         /\ success_count = Len(tile_coords) - Cardinality(failed_tasks)
         /\ metadata = calculate_viewer_metadata(slide.width, slide.height,
                                                 slide.tile_size)
         /\ (metadata_file \in out_dir) = (metadata.state = "metadata")

\* a task finished before the one handed out before it, and failed
C39_Witness ==
    /\ pc_build = "done"
    /\ failed_tasks = {2}
    /\ ~results[1]
    /\ results[2]
    /\ success_count = 13
    /\ metadata_file \in out_dir

\* ---- C31 ----
\* C31: a saved view is written only when an answer of the browser
\* arrives: no step in which the store itself sets annotation_data (undo,
\* redo, load of a saved view, recenter, minimap toggle) writes a file to
\* the saved-views directory
C31_SavedViewIsUiAnswer ==
    [][saved_dir' # saved_dir => ev'.op = "deliver"]_vars

\* ---- C32 ----
\* a snapshot as the browser reports it
UiSnapshot(snapshot) ==
    /\ {"zoom", "center", "annotations"} \subseteq DOMAIN snapshot
    /\ Get(snapshot, "timestamp", "") = "js"

\* C32: every live-tracking file is a snapshot the browser reported, and
\* so is the reference snapshot once there is one; neither is ever the
\* minimap-toggle payload or the recenter payload
C32_LiveFilesAreUiSnapshots ==
    /\ \A n \in DOMAIN live_dir : UiSnapshot(live_dir[n])
    /\ last_saved_state # None => UiSnapshot(last_saved_state)

\* ---- C33 ----
\* C33: a recenter leaves the polylines the viewer shows as they were
C33_RecenterKeepsAnnotations ==
    [][ev'.op = "recenter" => ui'.layers = ui.layers]_vars

C35_CursorIsLoadedView ==
    [][(current_saved_index' # current_saved_index /\ current_saved_index' # -1)
         => /\ ev'.op \in {"prev", "next"}
            /\ ev'.pushed
            /\ last_saved_state'
                 = saved_dir[get_saved_views_list(saved_dir)[current_saved_index' + 1]]]_vars

\* ---- C36 ----
\* C36: when a snapshot arrives for live tracking and no file is written,
\* be it that nothing changed or that the write failed, the reference
\* snapshot, the next-index counter and the current position stay as
\* they were
C36_FailedWriteIsNoOp ==
    [][(LiveTrackingArrival /\ live_dir' = live_dir)
         => UNCHANGED <<last_saved_state, live_tracking_index, current_live_index>>]_vars
====
